---------------------------- MODULE Spec2Model ----------------------------
(***************************************************************************)
(* Model of the checking process of zipped spatial-plan packages           *)
(* (src/controllers/run_process.py, check_layers) and of the checkers it   *)
(* calls.  A package is a set of named layers; a layer is a table of       *)
(* features (geometry + attribute values).  Geometries are sets of unit    *)
(* cells of a small grid, so that the planar predicates of the geometry    *)
(* library (within, difference, overlaps, touches, dissolve, interiors)    *)
(* are computed and not assumed.                                           *)
(***************************************************************************)
EXTENDS Integers, Sequences, FiniteSets, TLC

(***************************************************************************)
(* Bounds of the model.                                                    *)
(***************************************************************************)
\* Width and height of the grid of unit cells all geometries live on.
GridW == 4
GridH == 4

(***************************************************************************)
(* Small helpers on sequences.                                             *)
(***************************************************************************)
Range(s) == {s[i] : i \in DOMAIN s}

RECURSIVE SeqSum(_)
SeqSum(s) == IF s = <<>> THEN 0 ELSE Head(s) + SeqSum(Tail(s))

RECURSIVE SelectSeqIdx(_, _, _)
\* The subsequence of s at the indices i (in order) with keep[i] = TRUE.
SelectSeqIdx(s, keep, i) ==
    IF i > Len(s) THEN <<>>
    ELSE (IF keep[i] THEN <<s[i]>> ELSE <<>>) \o SelectSeqIdx(s, keep, i + 1)

Reverse(s) == [i \in 1..Len(s) |-> s[Len(s) + 1 - i]]

(***************************************************************************)
(* Geometry: a polygonal geometry is a set of cells <<x, y>>.              *)
(***************************************************************************)
Cells == (1..GridW) \X (1..GridH)
\* The grid with a border of one cell around it: the outside of the plan.
Padded == (0..(GridW + 1)) \X (0..(GridH + 1))

Abs(n) == IF n < 0 THEN -n ELSE n

\* Two cells share an edge.
EdgeAdj(a, b) == Abs(a[1] - b[1]) + Abs(a[2] - b[2]) = 1
\* Two distinct cells share an edge or a corner point.
PointAdj(a, b) == a # b /\ Abs(a[1] - b[1]) <= 1 /\ Abs(a[2] - b[2]) <= 1

RECURSIVE Flood(_, _)
\* The cells of `within` reachable from `seen` through shared edges.
Flood(seen, within) ==
    LET more == {c \in within \ seen : \E d \in seen : EdgeAdj(c, d)}
    IN  IF more = {} THEN seen ELSE Flood(seen \cup more, within)

RECURSIVE Components(_)
\* The single parts (edge-connected components) of a set of cells.
Components(g) ==
    IF g = {} THEN {}
    ELSE LET c == CHOOSE c \in g : TRUE
             part == Flood({c}, g)
         IN  {part} \cup Components(g \ part)

\* The interior rings of ONE polygon part p: the regions of its complement
\* that cannot reach the outside of the grid.
InteriorRings(p) ==
    LET comp == Padded \ p
        outside == Flood({<<0, 0>>}, comp)
    IN  Components(comp \ outside)

GeomWithin(a, b) == a # {} /\ a \subseteq b
GeomDifference(a, b) == a \ b
GeomIntersection(a, b) == a \cap b
\* shapely overlaps: the interiors meet, and neither geometry holds the other.
GeomOverlaps(a, b) == (a \cap b) # {} /\ (a \ b) # {} /\ (b \ a) # {}
\* shapely touches: the geometries meet on their boundaries only.
GeomTouches(a, b) ==
    /\ a \cap b = {}
    /\ \E c \in a, d \in b : PointAdj(c, d)

RECURSIVE UnionAll(_)
UnionAll(s) == IF s = <<>> THEN {} ELSE Head(s) \cup UnionAll(Tail(s))


(***************************************************************************)
(* Names.  Python strings are atomic here; the string operations the code  *)
(* uses on names (lower(), startswith("X")) are given as tables over the   *)
(* names of the model.                                                     *)
(***************************************************************************)
\* Names of the standardized layers, in the order of js_tables.
js_tables ==
    << "ReseneUzemi_p", "UzemniPrvkyRP_p", "ZastaveneUzemi_p", "PlochyRZV_p",
       "UzemniRezervy_p", "KoridoryP_p", "KoridoryN_p", "PlochyZmen_p",
       "PlochyPodm_p", "VpsVpoAs_p", "VpsVpoAs_l", "USES_p",
       "SystemSidelniZelene_p", "SystemVerProstr_p" >>

\* Names of the mandatory standardized layers.
mandatory_tables == << "ReseneUzemi_p", "ZastaveneUzemi_p", "PlochyRZV_p" >>

\* Layer names a package may hold that are not standardized: two with the
\* marker prefix "X" and one without it.
NonStandardNames == {"X_Doplnek", "X_Jine", "Doplnek"}

LayerNames == Range(js_tables) \cup NonStandardNames

\* str.startswith("X") on the names of the model.
StartsWithX(shp) == shp \in {"X_Doplnek", "X_Jine"}

\* str.lower() on the names of the model.
LowerName(shp) ==
    CASE shp = "ReseneUzemi_p" -> "reseneuzemi_p"
      [] shp = "UzemniPrvkyRP_p" -> "uzemniprvkyrp_p"
      [] shp = "ZastaveneUzemi_p" -> "zastaveneuzemi_p"
      [] shp = "PlochyRZV_p" -> "plochyrzv_p"
      [] shp = "UzemniRezervy_p" -> "uzemnirezervy_p"
      [] shp = "KoridoryP_p" -> "koridoryp_p"
      [] shp = "KoridoryN_p" -> "koridoryn_p"
      [] shp = "PlochyZmen_p" -> "plochyzmen_p"
      [] shp = "PlochyPodm_p" -> "plochypodm_p"
      [] shp = "VpsVpoAs_p" -> "vpsvpoas_p"
      [] shp = "VpsVpoAs_l" -> "vpsvpoas_l"
      [] shp = "USES_p" -> "uses_p"
      [] shp = "SystemSidelniZelene_p" -> "systemsidelnizelene_p"
      [] shp = "SystemVerProstr_p" -> "systemverprostr_p"
      [] shp = "X_Doplnek" -> "x_doplnek"
      [] shp = "X_Jine" -> "x_jine"
      [] shp = "Doplnek" -> "doplnek"

\* str.lower() on the column names of the model.
LowerCol(col) ==
    CASE col \in {"obec_kod", "OBEC_KOD"} -> "obec_kod"
      [] col \in {"id", "ID", "Id"} -> "id"
      [] col \in {"typ", "Typ", "TYP"} -> "typ"
      [] col \in {"cash", "CASH"} -> "cash"
      [] col \in {"index", "Index"} -> "index"
      [] col \in {"etapizace", "Etapizace"} -> "etapizace"
      [] col \in {"oznaceni", "Oznaceni"} -> "oznaceni"
      [] col \in {"datum", "Datum"} -> "datum"
      [] col \in {"poznamka", "Poznamka"} -> "poznamka"
      [] col = "geometry" -> "geometry"

(***************************************************************************)
(* The schema tables (src/models/attributes.py, src/models/values.py).     *)
(***************************************************************************)
\* attributes: mandatory attribute names per (lower-case) layer name.
attributes ==
    [ reseneuzemi_p |-> <<"obec_kod">>,
      uzemniprvkyrp_p |-> <<"id">>,
      zastaveneuzemi_p |-> <<"obec_kod">>,
      plochyrzv_p |-> <<"cash", "typ", "index">>,
      uzemnirezervy_p |-> <<"id", "typ">>,
      koridoryp_p |-> <<"id">>,
      koridoryn_p |-> <<"id">>,
      plochyzmen_p |-> <<"id", "etapizace">>,
      plochypodm_p |-> <<"id", "datum">>,
      vpsvpoas_p |-> <<"id">>,
      vpsvpoas_l |-> <<"id">>,
      uses_p |-> <<"cash", "typ", "oznaceni">>,
      systemsidelnizelene_p |-> <<"obec_kod">>,
      systemverprostr |-> <<"obec_kod">> ]

\* attribute_types: the expected dtype of every mandatory attribute.
attribute_types ==
    [ reseneuzemi_p |-> [obec_kod |-> "int64"],
      uzemniprvkyrp_p |-> [id |-> "object"],
      zastaveneuzemi_p |-> [obec_kod |-> "int64"],
      plochyrzv_p |-> [cash |-> "int64", typ |-> "object", index |-> "object"],
      uzemnirezervy_p |-> [id |-> "object", typ |-> "object"],
      koridoryp_p |-> [id |-> "object"],
      koridoryn_p |-> [id |-> "object"],
      plochyzmen_p |-> [id |-> "object", etapizace |-> "object"],
      plochypodm_p |-> [id |-> "object", datum |-> "datetime64"],
      vpsvpoas_p |-> [id |-> "object"],
      vpsvpoas_l |-> [id |-> "object"],
      uses_p |-> [cash |-> "int64", typ |-> "object", oznaceni |-> "object"],
      systemsidelnizelene_p |-> [obec_kod |-> "int64"],
      systemverprostr |-> [obec_kod |-> "int64"] ]

\* column_info: the identifying attribute used to label error features.
column_info ==
    [ reseneuzemi_p |-> "obec_kod",
      uzemniprvkyrp_p |-> "id",
      zastaveneuzemi_p |-> "obec_kod",
      plochyrzv_p |-> "typ",
      uzemnirezervy_p |-> "id",
      koridoryp_p |-> "id",
      koridoryn_p |-> "id",
      plochyzmen_p |-> "id",
      plochypodm_p |-> "id",
      vpsvpoas_p |-> "id",
      vpsvpoas_l |-> "id",
      uses_p |-> "oznaceni",
      systemsidelnizelene_p |-> "obec_kod",
      systemverprostr_p |-> "obec_kod" ]

\* column_info[shp.lower()]; a layer type without an identifying attribute
\* has none, and the label falls back to the first attribute column.
ColumnInfo(shp) ==
    IF LowerName(shp) \in DOMAIN column_info THEN column_info[LowerName(shp)]
    ELSE "-"


(***************************************************************************)
(* Data model of a package.                                                *)
(*   value   : None, a string (a sequence of characters) or an integer     *)
(*   feature : [geom, valid, vals]  (vals parallel to the layer's cols)    *)
(*   layer   : [cols, dtypes, feats]                                       *)
(*   package : a function from the names of the layers in the zip file     *)
(***************************************************************************)
None == [k |-> "none"]
Str(chars) == [k |-> "str", s |-> chars]
Int64(n) == [k |-> "int", n |-> n]

\* The municipality code the run is started with (parameter mun_code).
MunCode == 7

Feature(g, ok, vs) == [geom |-> g, valid |-> ok, vals |-> vs]
Layer(cs, ts, fs) == [cols |-> cs, dtypes |-> ts, feats |-> fs]

\* Regions of the grid used by the layers of the model.
Full == Cells
West == {c \in Cells : c[1] = 1}
East == Cells \ West
WestPlus == {c \in Cells : c[1] <= 2}
NoCentre == Cells \ {<<2, 2>>}

\* The values of the model.
vZ1 == Str(<<"Z", ".", "1">>)
vP1 == Str(<<"P", ".", "1">>)
vK1 == Str(<<"K", ".", "1">>)
vVU1 == Str(<<"V", "U", ".", "1">>)
vVD1 == Str(<<"V", "D", ".", "1">>)
vBU == Str(<<"B", "U">>)
vZZ == Str(<<"Z", "Z">>)
vQQ == Str(<<"Q", "Q">>)
vCPU1 == Str(<<"C", "P", "U", ".", "1">>)
vE == Str(<<"E">>)
vNote == Str(<<"n">>)

(***************************************************************************)
(* The layers a package of the model is built from, per layer name.  The   *)
(* first option of every name is the one of the base package.              *)
(***************************************************************************)
Absent == [absent |-> TRUE]

ReseneUzemiOk ==
    Layer(<<"obec_kod">>, <<"int64">>, << Feature(Full, TRUE, <<Int64(MunCode)>>) >>)
ReseneUzemiInvalid ==
    Layer(<<"obec_kod">>, <<"int64">>, << Feature(Full, FALSE, <<Int64(MunCode)>>) >>)
ReseneUzemiSmall ==
    Layer(<<"obec_kod">>, <<"int64">>, << Feature(WestPlus, TRUE, <<Int64(MunCode)>>) >>)

ZastaveneUzemiOk ==
    Layer(<<"obec_kod">>, <<"int64">>, << Feature(West, TRUE, <<Int64(MunCode)>>) >>)
ZastaveneUzemiEmpty == Layer(<<"obec_kod">>, <<"int64">>, <<>>)
ZastaveneUzemiWrongCode ==
    Layer(<<"OBEC_KOD">>, <<"object">>, << Feature(West, TRUE, <<Int64(MunCode + 1)>>) >>)

PlochyZmenOk ==
    Layer(<<"id", "etapizace">>, <<"object", "object">>,
          << Feature(West, TRUE, <<vP1, None>>), Feature(East, TRUE, <<vK1, vE>>) >>)
PlochyZmenEmpty == Layer(<<"id", "etapizace">>, <<"object", "object">>, <<>>)
PlochyZmenInvalid ==
    Layer(<<"id", "etapizace">>, <<"object", "object">>,
          << Feature(West, FALSE, <<vP1, None>>), Feature(East, TRUE, <<vQQ, vE>>) >>)

PlochyRZVFull ==
    Layer(<<"cash", "typ", "index">>, <<"int64", "object", "object">>,
          << Feature(Full, TRUE, <<Int64(1), vBU, None>>) >>)
PlochyRZVHalf ==
    Layer(<<"cash", "typ", "index">>, <<"int64", "object", "object">>,
          << Feature(West, TRUE, <<Int64(1), vBU, None>>) >>)
PlochyRZVOverlap ==
    Layer(<<"cash", "typ", "index">>, <<"int64", "object", "object">>,
          << Feature(WestPlus, TRUE, <<Int64(1), vBU, None>>),
             Feature(East, TRUE, <<Int64(2), vZZ, None>>) >>)
PlochyRZVGap ==
    Layer(<<"cash", "typ", "index">>, <<"int64", "object", "object">>,
          << Feature(NoCentre, TRUE, <<Int64(1), vBU, None>>) >>)
PlochyRZVInvalid ==
    Layer(<<"cash", "typ", "index">>, <<"int64", "object", "object">>,
          << Feature(Full, FALSE, <<Int64(1), vQQ, None>>) >>)
PlochyRZVEmpty == Layer(<<"cash", "typ", "index">>, <<"int64", "object", "object">>, <<>>)

KoridoryPOk ==
    Layer(<<"id">>, <<"object">>, << Feature(East, TRUE, <<vCPU1>>) >>)
KoridoryPEmpty == Layer(<<"id">>, <<"object">>, <<>>)

VpsVpoAsOverlap ==
    Layer(<<"id">>, <<"object">>,
          << Feature(WestPlus, TRUE, <<vVU1>>), Feature(East, TRUE, <<vVD1>>) >>)

\* UzemniRezervy_p with two features that overlap.
UzemniRezervyOverlap ==
    Layer(<<"id", "typ">>, <<"object", "object">>,
          << Feature(WestPlus, TRUE, <<Str(<<"R", ".", "1">>), vBU>>),
             Feature(East, TRUE, <<Str(<<"R", ".", "2">>), vBU>>) >>)

NonStdOk == Layer(<<"poznamka">>, <<"object">>, << Feature(West, TRUE, <<vNote>>) >>)
NonStdInvalid == Layer(<<"poznamka">>, <<"object">>, << Feature(West, FALSE, <<vNote>>) >>)
NonStdOverlap ==
    Layer(<<"poznamka">>, <<"object">>,
          << Feature(WestPlus, TRUE, <<vNote>>), Feature(East, TRUE, <<vNote>>) >>)
NonStdEmpty == Layer(<<"poznamka">>, <<"object">>, <<>>)

\* The names of the layers the packages of the model vary over.
ModelNames ==
    << "ReseneUzemi_p", "ZastaveneUzemi_p", "PlochyZmen_p", "PlochyRZV_p",
       "KoridoryP_p", "VpsVpoAs_p", "X_Doplnek", "Doplnek", "X_Jine",
       "UzemniRezervy_p" >>

LayerOptions(shp) ==
    CASE shp = "ReseneUzemi_p" ->
            << ReseneUzemiOk, Absent, ReseneUzemiInvalid, ReseneUzemiSmall >>
      [] shp = "ZastaveneUzemi_p" ->
            << ZastaveneUzemiOk, Absent, ZastaveneUzemiEmpty, ZastaveneUzemiWrongCode >>
      [] shp = "PlochyZmen_p" ->
            << PlochyZmenOk, Absent, PlochyZmenEmpty, PlochyZmenInvalid >>
      [] shp = "PlochyRZV_p" ->
            << Absent, PlochyRZVFull, PlochyRZVHalf, PlochyRZVOverlap,
               PlochyRZVGap, PlochyRZVInvalid, PlochyRZVEmpty >>
      [] shp = "KoridoryP_p" -> << Absent, KoridoryPOk, KoridoryPEmpty >>
      [] shp = "VpsVpoAs_p" -> << Absent, VpsVpoAsOverlap >>
      [] shp = "X_Doplnek" ->
            << Absent, NonStdOk, NonStdInvalid, NonStdOverlap, NonStdEmpty >>
      [] shp = "Doplnek" -> << Absent, NonStdOk, NonStdEmpty >>
      [] shp = "X_Jine" -> << Absent, NonStdOk >>
      [] shp = "UzemniRezervy_p" -> << Absent, UzemniRezervyOverlap >>

\* How many layers of a package may differ from the base package.
MaxDeviations == 2

RECURSIVE ChoicesFrom(_, _)
\* The choices of one option for each of the names i.., at most `budget` of
\* them not the first option.
ChoicesFrom(i, budget) ==
    IF i > Len(ModelNames) THEN {<<>>}
    ELSE {<<1>> \o t : t \in ChoicesFrom(i + 1, budget)}
         \cup (IF budget = 0 THEN {}
               ELSE {<<o>> \o t : o \in 2..Len(LayerOptions(ModelNames[i])),
                                   t \in ChoicesFrom(i + 1, budget - 1)})

Choices == ChoicesFrom(1, MaxDeviations)

\* The package of a choice: the layers of the zip file, by name.
PackageOf(ch) ==
    LET present == {i \in DOMAIN ch : LayerOptions(ModelNames[i])[ch[i]] # Absent}
    IN  [shp \in {ModelNames[i] : i \in present} |->
            LET i == CHOOSE j \in present : ModelNames[j] = shp
            IN  LayerOptions(ModelNames[i])[ch[i]]]

Packages == {PackageOf(ch) : ch \in Choices}


(***************************************************************************)
(* State of one run of check_layers.                                       *)
(***************************************************************************)
VARIABLES
    pkg,            \* the package: the layers of the zip file, by name
    verbose,        \* parameter verbose
    export,         \* parameter export
    destOk,         \* whether dest_dir_path can be written to
    setOrder,       \* iteration order of the set shps_in_zip returns
    phase,          \* position of the run in check_layers
    shps_to_check,  \* the list check_layers is looping over
    li,             \* index of the layer being checked
    ci,             \* index of the next check of that layer
    errors,         \* local counter `errors`
    warnings,       \* local counter `warnings`
    status,         \* run-level counter `status`
    out,            \* everything printed so far: findings and statuses
    calls           \* the checker invocations so far, in order

vars == << pkg, verbose, export, destOk, setOrder, phase, shps_to_check, li, ci,
           errors, warnings, status, out, calls >>

(***************************************************************************)
(* Reading the package.                                                    *)
(***************************************************************************)
\* shps_in_zip: the names of the shapefiles of the zip file.
shps_in_zip == DOMAIN pkg

\* gpd.read_file raises when the zip file holds no such shapefile.
ReadRaises(shp) == shp \notin shps_in_zip

IsEmptyLayer(shp) == pkg[shp].feats = <<>>

\* gdf.columns.tolist(): the attribute columns, then geometry.
Columns(shp) == pkg[shp].cols \o <<"geometry">>

ColIndex(shp, col) == CHOOSE i \in DOMAIN pkg[shp].cols : pkg[shp].cols[i] = col

\* shp_gdf[col][row] for an attribute column (rows from 1).
Cell(shp, col, row) == pkg[shp].feats[row].vals[ColIndex(shp, col)]

\* Series.count(): the number of non-null values of a column.
CountNonNull(shp, col) ==
    Cardinality({r \in DOMAIN pkg[shp].feats : Cell(shp, col, r) # None})

\* gdf.geometry.count(): the number of rows with a geometry.
GeomCount(shp) == Len(pkg[shp].feats)

\* A result of a checker: the value returned, whether it raised instead, and
\* what it printed.
Returned(n, printed) == [ret |-> n, raised |-> FALSE, out |-> printed]
Raised(printed) ==
    [ret |-> 0, raised |-> TRUE,
     out |-> printed \o << [sev |-> "Unexpected", chk |-> "exception", shp |-> "-"] >>]

Finding(sev, chk, shp) == [sev |-> sev, chk |-> chk, shp |-> shp]

\* gdf.to_file raises when the destination directory cannot be written to.
ToFileRaises == ~destOk

(***************************************************************************)
(* geom_validation.py                                                      *)
(***************************************************************************)
\* validity_shp_zip telling only whether the layer has an invalid geometry.
validity_shp_zip_flag(shp) ==
    IF \E r \in DOMAIN pkg[shp].feats : ~pkg[shp].feats[r].valid THEN 1 ELSE 0

\* validity_shp_zip: the number of invalid geometries of a layer.
validity_shp_zip(shp) ==
    Cardinality({r \in DOMAIN pkg[shp].feats : ~pkg[shp].feats[r].valid})

check_validity_shp_zip(shp) ==
    IF ReadRaises(shp) THEN Raised(<<>>)
    ELSE LET n == validity_shp_zip(shp)
         IN  IF n = 0 THEN Returned(n, << Finding("Ok", "validity", shp) >>)
             ELSE IF export /\ ToFileRaises THEN Raised(<<>>)
             ELSE Returned(n, << Finding("Error", "validity", shp) >>)

(***************************************************************************)
(* attribute_rules.py                                                      *)
(***************************************************************************)
\* The columns whose lower-case name is a mandatory attribute of the layer.
Included(shp) ==
    LET cols == Columns(shp)
        mand == Range(attributes[LowerName(shp)])
    IN  SelectSeqIdx(cols, [i \in DOMAIN cols |-> LowerCol(cols[i]) \in mand], 1)

\* The mandatory attributes that no column matches.
Missing(shp) ==
    Range(attributes[LowerName(shp)]) \ {LowerCol(c) : c \in Range(Included(shp))}

mandatory_attrs_exist(shp) ==
    IF ReadRaises(shp) \/ LowerName(shp) \notin DOMAIN attributes THEN Raised(<<>>)
    ELSE LET n == Cardinality(Missing(shp))
         IN  IF n = 0 THEN Returned(n, << Finding("Ok", "attrs_exist", shp) >>)
             ELSE Returned(n, << Finding("Error", "attrs_exist", shp) >>)

Dtype(shp, col) == pkg[shp].dtypes[ColIndex(shp, col)]

\* The included columns whose dtype is not the mandatory attribute's type.
WrongTypes(shp) ==
    LET inc == Included(shp)
    IN  SelectSeqIdx(inc,
            [i \in DOMAIN inc |->
                Dtype(shp, inc[i]) # attribute_types[LowerName(shp)][LowerCol(inc[i])]],
            1)

mandatory_attrs_type(shp) ==
    IF ReadRaises(shp) \/ LowerName(shp) \notin DOMAIN attributes THEN Raised(<<>>)
    ELSE LET n == Len(WrongTypes(shp))
         IN  IF n = 0 THEN Returned(n, << Finding("Ok", "attrs_type", shp) >>)
             ELSE IF verbose
                  THEN Returned(n, << Finding("Unlabelled", "attrs_type", shp) >>)
                  ELSE Returned(n, <<>>)


(***************************************************************************)
(* values.py: the permitted values (strings as sequences of characters).   *)
(***************************************************************************)
values ==
    [ obecne |->
        [ cash |-> {Int64(1), Int64(2)},
          typ |->
            { Str(<<"B", "U">>), Str(<<"B", "V">>), Str(<<"B", "I">>),
              Str(<<"B", "H">>), Str(<<"B", "X">>), Str(<<"R", "U">>),
              Str(<<"R", "I">>), Str(<<"R", "Z">>), Str(<<"R", "O">>),
              Str(<<"R", "H">>), Str(<<"R", "X">>), Str(<<"O", "U">>),
              Str(<<"O", "V">>), Str(<<"O", "K">>), Str(<<"O", "S">>),
              Str(<<"O", "L">>), Str(<<"O", "H">>), Str(<<"O", "X">>),
              Str(<<"P", "U">>), Str(<<"P", "X">>), Str(<<"Z", "U">>),
              Str(<<"Z", "P">>), Str(<<"Z", "Z">>), Str(<<"Z", "O">>),
              Str(<<"Z", "S">>), Str(<<"Z", "K">>), Str(<<"Z", "X">>),
              Str(<<"S", "U">>), Str(<<"S", "V">>), Str(<<"S", "M">>),
              Str(<<"S", "C">>), Str(<<"S", "X">>), Str(<<"D", "U">>),
              Str(<<"D", "S">>), Str(<<"D", "D">>), Str(<<"D", "V">>),
              Str(<<"D", "L">>), Str(<<"D", "K">>), Str(<<"D", "X">>),
              Str(<<"T", "U">>), Str(<<"T", "W">>), Str(<<"T", "E">>),
              Str(<<"T", "S">>), Str(<<"T", "O">>), Str(<<"T", "X">>),
              Str(<<"V", "U">>), Str(<<"V", "T">>), Str(<<"V", "L">>),
              Str(<<"V", "D">>), Str(<<"V", "S">>), Str(<<"V", "Z">>),
              Str(<<"V", "E">>), Str(<<"V", "X">>), Str(<<"H", "U">>),
              Str(<<"H", "X">>), Str(<<"W", "U">>), Str(<<"W", "T">>),
              Str(<<"W", "H">>), Str(<<"W", "X">>), Str(<<"A", "U">>),
              Str(<<"A", "P">>), Str(<<"A", "T">>), Str(<<"A", "X">>),
              Str(<<"L", "U">>), Str(<<"L", "X">>), Str(<<"N", "U">>),
              Str(<<"N", "X">>), Str(<<"M", "U">>), Str(<<"M", "X">>),
              Str(<<"G", "U">>), Str(<<"G", "D">>), Str(<<"G", "Z">>),
              Str(<<"G", "X">>), Str(<<"X", "Z">>), Str(<<"X", "X">>) } ],
      uzemniprvkyrp_p |-> [id |-> { Str(<<"U", ".">>) }],
      plochyrzv_p |-> [index |-> {}],
      uzemnirezervy_p |-> [id |-> { Str(<<"R", ".">>) }],
      koridoryp_p |-> [id |-> { Str(<<"C", "P", "U", ".">>), Str(<<"C", "P", "Z", ".">>) }],
      koridoryn_p |-> [id |-> { Str(<<"C", "N", "U", ".">>), Str(<<"C", "N", "Z", ".">>) }],
      plochyzmen_p |->
        [ id |-> { Str(<<"Z", ".">>), Str(<<"P", ".">>), Str(<<"K", ".">>) },
          etapizace |-> { Str(<<"E">>), None } ],
      plochypodm_p |->
        [ id |-> { Str(<<"R", "P", ".">>), Str(<<"U", "S", ".">>),
              Str(<<"D", "O", ".">>), Str(<<"D", "R", ".">>),
              Str(<<"D", "U", ".">>) } ],
      vpsvpoas |->
        [ id |->
            { Str(<<"V", "D", ".">>), Str(<<"P", "D", ".">>),
              Str(<<"V", "P", "D", ".">>), Str(<<"V", "T", ".">>),
              Str(<<"P", "T", ".">>), Str(<<"V", "P", "T", ".">>),
              Str(<<"V", "K", ".">>), Str(<<"V", "R", ".">>),
              Str(<<"V", "U", ".">>), Str(<<"V", "G", ".">>),
              Str(<<"V", "B", ".">>), Str(<<"V", "A", ".">>),
              Str(<<"P", "O", ".">>), Str(<<"P", "P", ".">>) } ],
      uses_p |->
        [ typ |->
            { Str(<<"N", "R", "B", "K">>), Str(<<"N", "R", "B", "C">>),
              Str(<<"R", "B", "K">>), Str(<<"R", "B", "C", "N", "R", "B", "K">>),
              Str(<<"R", "B", "C">>), Str(<<"L", "B", "K">>),
              Str(<<"L", "B", "C", "N", "R", "B", "K">>),
              Str(<<"L", "B", "C", "R", "B", "K">>), Str(<<"L", "B", "C">>) },
          oznaceni |->
            { Str(<<"N", "R", "B", "K", ".">>), Str(<<"N", "R", "B", "C", ".">>),
              Str(<<"R", "B", "K", ".">>),
              Str(<<"R", "B", "C", "N", "R", "B", "K", ".">>),
              Str(<<"R", "B", "C", ".">>), Str(<<"L", "B", "K", ".">>),
              Str(<<"L", "B", "C", "N", "R", "B", "K", ".">>),
              Str(<<"L", "B", "C", "R", "B", "K", ".">>),
              Str(<<"L", "B", "C", ".">>) } ] ]

(***************************************************************************)
(* check_records.py                                                        *)
(***************************************************************************)
\* value[:n] of a string value.
Prefix(v, n) == Str(SubSeq(v.s, 1, IF n < Len(v.s) THEN n ELSE Len(v.s)))

\* The row is wrong unless the value is a string with a prefix of one of the
\* lengths in the permitted set (None is wrong).
PrefixRule(v, lens, permitted) ==
    IF v = None THEN "wrong"
    ELSE IF v.k # "str" THEN "raise"
    ELSE IF \E n \in lens : Prefix(v, n) \in permitted THEN "pass" ELSE "wrong"

MemberRule(v, permitted) == IF v \in permitted THEN "pass" ELSE "wrong"

\* The index rule of PlochyRZV_p reads the column named "Typ".
IndexRule(shp, row, v) ==
    IF v = None THEN "pass"
    ELSE IF "Typ" \notin Range(pkg[shp].cols) THEN "raise"
    ELSE LET typ == Cell(shp, "Typ", row)
         IN  IF typ = Str(<<"A", "P">>)
             THEN MemberRule(v, {Str(<<"p">>), Str(<<"t">>)})
             ELSE IF typ = Str(<<"L", "U">>)
             THEN MemberRule(v, {Str(<<"h">>), Str(<<"o">>), Str(<<"z">>)})
             ELSE "pass"

\* What the loop body of allowed_values does with one row of one attribute:
\* "pass", "wrong" (the row is appended to wrong_values) or "raise".
RowVerdict(shp, attr, row) ==
    LET low == LowerName(shp)
        v == Cell(shp, attr, row)
    IN  CASE low \in {"reseneuzemi_p", "zastaveneuzemi_p",
                      "systemsidelnizelene_p", "systemverprostr_p"} ->
                IF v = Int64(MunCode) THEN "pass" ELSE "wrong"
          [] low = "uzemiprvkyrp_p" ->
                PrefixRule(v, {2}, values[low].id)
          [] low = "plochyrzv_p" ->
                CASE attr = "cash" -> MemberRule(v, values.obecne.cash)
                  [] attr = "typ" -> MemberRule(v, values.obecne.typ)
                  [] attr = "index" -> IndexRule(shp, row, v)
                  [] OTHER -> "pass"
          [] low = "uzemnirezervy_p" ->
                CASE attr = "id" -> PrefixRule(v, {2}, values[low].id)
                  [] attr = "typ" -> MemberRule(v, values.obecne.typ)
                  [] OTHER -> "pass"
          [] low \in {"koridoryp_p", "koridoryn_p"} ->
                IF attr = "id" THEN PrefixRule(v, {4}, values[low].id) ELSE "pass"
          [] low = "plochyzmen_p" ->
                CASE attr = "id" -> PrefixRule(v, {2}, values[low].id)
                  [] attr = "etapizace" -> MemberRule(v, values[low].etapizace)
                  [] OTHER -> "pass"
          [] low = "plochypodm_p" ->
                \* (the datum rule compares with the day of the run)
                IF attr = "id" THEN PrefixRule(v, {3}, values[low].id) ELSE "pass"
          [] low \in {"vpsvpoas_p", "vpsvpoas_l"} ->
                PrefixRule(v, {3, 4}, values.vpsvpoas.id)
          [] low = "uses_p" ->
                CASE attr = "cash" -> MemberRule(v, values.obecne.cash)
                  [] attr = "typ" -> MemberRule(v, values.uses_p.typ)
                  [] attr = "oznaceni" ->
                        PrefixRule(v, {4, 5, 7, 8}, values.uses_p.oznaceni)
                  [] OTHER -> "pass"
          [] OTHER -> "pass"

\* The rows the loops of allowed_values visit: range(shp_gdf[attr].count()).
RowsVisited(shp, attr) == 1..CountNonNull(shp, attr)

\* The verdicts of all visited rows of all included attributes.
Verdicts(shp) ==
    LET inc == Included(shp)
    IN  UNION { { << i, r, RowVerdict(shp, inc[i], r) >> :
                    r \in RowsVisited(shp, inc[i]) } : i \in DOMAIN inc }

allowed_values(shp) ==
    IF ReadRaises(shp) \/ LowerName(shp) \notin DOMAIN attributes THEN Raised(<<>>)
    ELSE LET vd == Verdicts(shp)
             n == Cardinality({x \in vd : x[3] = "wrong"})
         IN  IF \E x \in vd : x[3] = "raise" THEN Raised(<<>>)
             ELSE IF n = 0 THEN Returned(n, << Finding("Ok", "values", shp) >>)
             ELSE IF export /\ ToFileRaises THEN Raised(<<>>)
             ELSE Returned(n, << Finding("Error", "values", shp) >>)


(***************************************************************************)
(* solo_relations.py                                                       *)
(***************************************************************************)
\* shp_gdf.geometry: the geometries of the rows of a layer.
Geoms(shp) == [i \in DOMAIN pkg[shp].feats |-> pkg[shp].feats[i].geom]

\* shp_gdf.dissolve(): all rows merged into one geometry.
Dissolved(shp) == UnionAll(Geoms(shp))

\* Polygon(mun_borders_gdf.geometry.get_coordinates()): the polygon of the
\* coordinates of ReseneUzemi_p (its validity is not looked at).
borders_polygon == Dissolved("ReseneUzemi_p")

\* The columns whose lower-case name is the identifying attribute.
mandatory_col_info(shp) ==
    LET cols == Columns(shp)
    IN  SelectSeqIdx(cols, [i \in DOMAIN cols |-> LowerCol(cols[i]) = ColumnInfo(shp)], 1)

InJsTables(shp) == shp \in Range(js_tables)

\* geom_out collecting only the features that lie across the boundary
\* (neither within it nor apart from it).
GeomOutAcross(shp) ==
    LET g == Geoms(shp)
    IN  IF InJsTables(shp) /\ Len(mandatory_col_info(shp)) > 0
        THEN SelectSeqIdx([i \in DOMAIN g |-> GeomDifference(g[i], borders_polygon)],
                          [i \in DOMAIN g |->
                              /\ ~GeomWithin(g[i], borders_polygon)
                              /\ GeomIntersection(g[i], borders_polygon) # {}], 1)
        ELSE <<>>

\* geom_out of shp_within_mun: the parts outside the boundary, one per
\* feature that is not within it.  They are collected only when the layer
\* is standardized and has its identifying attribute.
GeomOut(shp) ==
    LET g == Geoms(shp)
    IN  IF InJsTables(shp) /\ Len(mandatory_col_info(shp)) > 0
        THEN SelectSeqIdx([i \in DOMAIN g |-> GeomDifference(g[i], borders_polygon)],
                          [i \in DOMAIN g |-> ~GeomWithin(g[i], borders_polygon)], 1)
        ELSE <<>>

shp_within_mun(shp) ==
    IF ReadRaises(shp) THEN Raised(<<>>)
    ELSE IF validity_shp_zip(shp) = 0
    THEN IF ReadRaises("ReseneUzemi_p") THEN Raised(<<>>)
         ELSE LET n == Len(GeomOut(shp))
              IN  IF n = 0 THEN Returned(n, << Finding("Ok", "within", shp) >>)
                  ELSE IF export /\ ToFileRaises THEN Raised(<<>>)
                  ELSE Returned(n, << Finding("Error", "within", shp) >>)
    ELSE \* the test is skipped; geom_out is still empty
         Returned(0, << Finding("Error", "within", shp) >>)

\* dissolved.geometry.interiors.tolist()[0] is None when the dissolved
\* geometry is a MultiPolygon, else the interior rings of the polygon.
InteriorIsNone(g) == Cardinality(Components(g)) # 1
Interior(g) == IF InteriorIsNone(g) THEN {} ELSE InteriorRings(g)

\* The label loop of check_gaps evaluates `geometry[i].touches(interior)` as a
\* truth value: ambiguous (an exception) for two or more rings; and its else
\* branch indexes mandatory_col_info[0].
GapsLabelsRaise(shp) ==
    LET interior == Interior(Dissolved(shp))
    IN  /\ GeomCount(shp) > 0
        /\ \/ Cardinality(interior) >= 2
           \/ /\ Cardinality(interior) = 1
              /\ Len(mandatory_col_info(shp)) = 0
              /\ \E i \in DOMAIN Geoms(shp), r \in interior :
                    GeomTouches(Geoms(shp)[i], r)

check_gaps(shp) ==
    IF ReadRaises(shp) THEN Raised(<<>>)
    ELSE IF validity_shp_zip(shp) = 0
    THEN LET interior == Interior(Dissolved(shp))
         IN  IF GapsLabelsRaise(shp) THEN Raised(<<>>)
             ELSE IF InteriorIsNone(Dissolved(shp)) \/ Cardinality(interior) = 0
             THEN Returned(0, << Finding("Ok", "gaps", shp) >>)
             ELSE IF export /\ ToFileRaises THEN Raised(<<>>)
             ELSE Returned(1, << Finding("Error", "gaps", shp) >>)
    ELSE Returned(1, << Finding("Error", "gaps", shp) >>)

\* The rows that overlap some row of the layer.
overlapping_geom(g) ==
    SelectSeqIdx(g, [i \in DOMAIN g |-> \E j \in DOMAIN g : GeomOverlaps(g[i], g[j])], 1)

\* intersected of check_overlaps: one intersection per ordered pair of
\* different overlapping geometries.
Intersected(g) ==
    LET og == overlapping_geom(g)
        pairs == {p \in (DOMAIN og) \X (DOMAIN og) :
                    og[p[1]] # og[p[2]] /\ GeomOverlaps(og[p[1]], og[p[2]])}
    IN  [p \in pairs |-> GeomIntersection(og[p[1]], og[p[2]])]

\* polyg_only: the single polygon parts of the intersections.
PolygOnlyCount(inter) ==
    LET ps == DOMAIN inter
        RECURSIVE Sum(_)
        Sum(S) == IF S = {} THEN 0
                  ELSE LET p == CHOOSE q \in S : TRUE
                       IN  Cardinality(Components(inter[p])) + Sum(S \ {p})
    IN  Sum(ps)

check_overlaps(shp) ==
    IF ReadRaises(shp) THEN Raised(<<>>)
    ELSE IF validity_shp_zip(shp) = 0
    THEN LET inter == Intersected(Geoms(shp))
             n == Cardinality(DOMAIN inter)
         IN  IF PolygOnlyCount(inter) = 0
             THEN Returned(n, << Finding("Ok", "overlaps", shp) >>)
             ELSE IF export /\ ToFileRaises THEN Raised(<<>>)
             ELSE Returned(n, << Finding("Error", "overlaps", shp) >>)
    ELSE \* the test is skipped; intersected is still empty
         Returned(0, << Finding("Error", "overlaps", shp) >>)


(***************************************************************************)
(* uniq_relations.py                                                       *)
(***************************************************************************)
\* The standardized shapefiles of the zip file that are not empty, in the
\* order of js_tables.
NonEmptyStandardized ==
    SelectSeqIdx(js_tables,
        [i \in DOMAIN js_tables |->
            js_tables[i] \in shps_in_zip /\ ~IsEmptyLayer(js_tables[i])], 1)

\* id_attr = [attr for attr in columns if attr.lower == "id"]: the bound
\* method attr.lower is compared, not the lower-case name, so no column is
\* ever selected.
id_attr(shp) ==
    LET cols == Columns(shp)
    IN  SelectSeqIdx(cols, [i \in DOMAIN cols |-> FALSE], 1)

\* `id_attr == 1` and `id_attr == 0` compare a list with an integer.
ListEqualsInt(lst, n) == FALSE

\* Whether some value of the id column starts with the prefix.
AnyStartsWith(shp, col, prefix) ==
    \E r \in DOMAIN pkg[shp].feats :
        LET v == Cell(shp, col, r)
        IN  v # None /\ v.k = "str" /\ Prefix(v, Len(prefix)) = Str(prefix)

\* The features of `shp` with the id prefix that are within no feature of
\* `other` (wantWithin) or within some feature of it (~wantWithin).
SubsetViolations(shp, col, prefix, other, wantWithin) ==
    {r \in DOMAIN pkg[shp].feats :
        LET v == Cell(shp, col, r)
            inside == \E o \in DOMAIN pkg[other].feats :
                          GeomWithin(Geoms(shp)[r], Geoms(other)[o])
        IN  /\ v # None /\ v.k = "str" /\ Prefix(v, Len(prefix)) = Str(prefix)
            /\ inside # wantWithin}

\* The common body of vu_within_uses, p_within_zu and k_outside_zu once the
\* layer is the subject layer and the reference layer is being checked.
SubsetCheck(chk, shp, other, runPrefix, rowPrefix, wantWithin) ==
    LET ids == id_attr(shp)
        valid == validity_shp_zip(shp) = 0 /\ validity_shp_zip(other) = 0
    IN  IF valid /\ ListEqualsInt(ids, 1) /\ AnyStartsWith(shp, ids[1], runPrefix)
        THEN LET n == Cardinality(SubsetViolations(shp, ids[1], rowPrefix, other, wantWithin))
             IN  IF n = 0 THEN Returned(0, << Finding("Ok", chk, shp) >>)
                 ELSE IF export /\ ToFileRaises THEN Raised(<<>>)
                 ELSE Returned(1, << Finding("Error", chk, shp) >>)
        ELSE IF ~valid
        THEN \* "cannot be run due to invalid geometries": errors is left alone
             Returned(0, << Finding("Error", chk, shp) >>)
        ELSE IF ListEqualsInt(ids, 0)
        THEN Returned(0, << Finding("Error", chk, shp) >>)
        ELSE IF ListEqualsInt(ids, 1) /\ ~AnyStartsWith(shp, ids[1], rowPrefix)
        THEN Returned(0, << Finding("Error", chk, shp) >>)
        ELSE Returned(0, <<>>)

vu_within_uses(shp) ==
    IF shp = "VpsVpoAs_p" /\ "USES_p" \in Range(NonEmptyStandardized)
    THEN SubsetCheck("vu_within_uses", shp, "USES_p", <<"V", "U">>, <<"V", "U">>, TRUE)
    ELSE Returned(0, <<>>)

\* p_within_zu and k_outside_zu read PlochyZmen_p.shp before looking at shp.
p_within_zu(shp) ==
    IF ReadRaises("PlochyZmen_p") THEN Raised(<<>>)
    ELSE IF shp = "PlochyZmen_p" /\ "ZastaveneUzemi_p" \in Range(NonEmptyStandardized)
    THEN SubsetCheck("p_within_zu", shp, "ZastaveneUzemi_p", <<"K">>, <<"P">>, TRUE)
    ELSE Returned(0, <<>>)

k_outside_zu(shp) ==
    IF ReadRaises("PlochyZmen_p") THEN Raised(<<>>)
    ELSE IF shp = "PlochyZmen_p" /\ "ZastaveneUzemi_p" \in Range(NonEmptyStandardized)
    THEN SubsetCheck("k_outside_zu", shp, "ZastaveneUzemi_p", <<"K">>, <<"K">>, FALSE)
    ELSE Returned(0, <<>>)


(***************************************************************************)
(* cover_relations.py                                                      *)
(***************************************************************************)
\* shapely intersects: the geometries share at least a point.
GeomIntersects(a, b) ==
    \/ (a \cap b) # {}
    \/ \E c \in a, d \in b : PointAdj(c, d)

\* merged = plochy_rzv.sjoin(koridory_p): one row per pair of a PlochyRZV_p
\* feature and a KoridoryP_p feature that intersect; the row keeps the
\* geometry and the index label (from 0) of the PlochyRZV_p feature.
MergedRows ==
    LET rzv == Geoms("PlochyRZV_p")
        kor == Geoms("KoridoryP_p")
        RECURSIVE Rows(_)
        Rows(i) ==
            IF i > Len(rzv) THEN <<>>
            ELSE SelectSeqIdx([j \in DOMAIN kor |-> [label |-> i - 1, geom |-> rzv[i]]],
                              [j \in DOMAIN kor |-> GeomIntersects(rzv[i], kor[j])], 1)
                 \o Rows(i + 1)
    IN  Rows(1)

\* The label loops read merged.geometry[i] for i in range(count): a lookup
\* by index label, which fails when no row of merged has the label i.
MergedLookupRaises ==
    \E i \in 0..(Len(MergedRows) - 1) : \A r \in DOMAIN MergedRows : MergedRows[r].label # i

MergedDissolved == UnionAll([r \in DOMAIN MergedRows |-> MergedRows[r].geom])

\* boundary.difference(dissolved): a geometry, empty when the boundary is
\* covered; the result is never None.
CoverDiff(covering) == GeomDifference(borders_polygon, covering)
DiffIsNone(diff) == FALSE

covered_mun_both ==
    IF ReadRaises("PlochyRZV_p") \/ ReadRaises("KoridoryP_p") \/ ReadRaises("ReseneUzemi_p")
    THEN Raised(<<>>)
    ELSE IF /\ validity_shp_zip("PlochyRZV_p") = 0
            /\ validity_shp_zip("KoridoryP_p") = 0
            /\ validity_shp_zip("ReseneUzemi_p") = 0
    THEN LET diff == CoverDiff(MergedDissolved)
         IN  IF MergedLookupRaises THEN Raised(<<>>)
             ELSE IF DiffIsNone(diff)
             THEN Returned(0, << Finding("Ok", "covered_mun_both", "-") >>)
             ELSE IF export /\ ToFileRaises THEN Raised(<<>>)
             ELSE Returned(1, << Finding("Error", "covered_mun_both", "-") >>)
    ELSE Returned(1, << Finding("Error", "covered_mun_both", "-") >>)

covered_mun_przv ==
    IF ReadRaises("PlochyRZV_p") \/ ReadRaises("ReseneUzemi_p") THEN Raised(<<>>)
    ELSE IF validity_shp_zip("PlochyRZV_p") = 0 /\ validity_shp_zip("ReseneUzemi_p") = 0
    THEN LET diff == CoverDiff(Dissolved("PlochyRZV_p"))
         IN  IF DiffIsNone(diff)
             THEN Returned(0, << Finding("Warning", "covered_mun_przv", "-"),
                                 Finding("Ok", "covered_mun_przv", "-") >>)
             ELSE IF export /\ ToFileRaises THEN Raised(<<>>)
             ELSE Returned(1, << Finding("Warning", "covered_mun_przv", "-"),
                                 Finding("Error", "covered_mun_przv", "-") >>)
    ELSE Returned(1, << Finding("Error", "covered_mun_przv", "-") >>)

\* check_gaps_covered: tolist()[0] fails on the dissolve of no rows; the
\* export names the coordinate system "ESPG:5514", which to_file rejects.
check_gaps_covered ==
    IF ReadRaises("PlochyRZV_p") \/ ReadRaises("KoridoryP_p") THEN Raised(<<>>)
    ELSE IF validity_shp_zip("PlochyRZV_p") = 0 /\ validity_shp_zip("KoridoryP_p") = 0
    THEN LET interior == Interior(MergedDissolved)
         IN  IF MergedRows = <<>> \/ MergedLookupRaises THEN Raised(<<>>)
             ELSE IF InteriorIsNone(MergedDissolved) \/ Cardinality(interior) = 0
             THEN Returned(0, << Finding("Ok", "check_gaps_covered", "-") >>)
             ELSE IF export THEN Raised(<<>>)
             ELSE Returned(1, << Finding("Error", "check_gaps_covered", "-") >>)
    ELSE Returned(1, << Finding("Error", "check_gaps_covered", "-") >>)

\* overlaps_covered_mun: `[x for x in exploded if x.geom_type == "Polygon"]`
\* iterates the column names of a GeoDataFrame, and a name has no geom_type.
overlaps_covered_mun ==
    IF ReadRaises("PlochyRZV_p") \/ ReadRaises("KoridoryP_p") THEN Raised(<<>>)
    ELSE IF validity_shp_zip("PlochyRZV_p") = 0 /\ validity_shp_zip("KoridoryP_p") = 0
    THEN Raised(<<>>)
    ELSE Returned(1, << Finding("Error", "overlaps_covered_mun", "-") >>)


(***************************************************************************)
(* general_relations.py                                                    *)
(***************************************************************************)
\* The order in which a loop over the set shps_in_zip visits the names: the
\* order of a Python set is not fixed, and the model has two of the orders.
AllNames == js_tables \o <<"X_Doplnek", "X_Jine", "Doplnek">>
SetIteration ==
    LET fwd == SelectSeqIdx(AllNames, [i \in DOMAIN AllNames |-> AllNames[i] \in shps_in_zip], 1)
    IN  IF setOrder = "fwd" THEN fwd ELSE Reverse(fwd)

RECURSIVE FlatMap(_, _, _)
\* The concatenation of f[s[i]] for i, i+1, ...
FlatMap(s, f, i) == IF i > Len(s) THEN <<>> ELSE f[s[i]] \o FlatMap(s, f, i + 1)

\* unknown_shp: the shapefiles that are neither standardized nor start with X.
unknown_shp ==
    SelectSeqIdx(SetIteration,
        [i \in DOMAIN SetIteration |->
            ~InJsTables(SetIteration[i]) /\ ~StartsWithX(SetIteration[i])], 1)

\* mandatory_shp_miss: the mandatory shapefiles that are not in the zip file.
mandatory_shp_miss ==
    SelectSeqIdx(mandatory_tables,
        [i \in DOMAIN mandatory_tables |-> mandatory_tables[i] \notin shps_in_zip], 1)

\* What shp_info_standardized prints for one shapefile of the zip file.
StandardizedInfo(shp) ==
    LET miss_stand_shp == {n \in Range(js_tables) : n \notin shps_in_zip}
        mandatory == shp \in Range(mandatory_tables)
    IN  IF InJsTables(shp) /\ shp \notin miss_stand_shp /\ ~IsEmptyLayer(shp)
        THEN << Finding("Ok", "shp_info_standardized", shp) >>
        ELSE IF InJsTables(shp) /\ mandatory /\ shp \notin miss_stand_shp /\ IsEmptyLayer(shp)
        THEN << Finding("Error", "shp_info_standardized", shp) >>
        ELSE IF InJsTables(shp) /\ ~mandatory /\ shp \notin miss_stand_shp /\ IsEmptyLayer(shp)
        THEN << Finding("Warning", "shp_info_standardized", shp) >>
        ELSE IF InJsTables(shp) /\ mandatory /\ shp \in miss_stand_shp
        THEN << Finding("Error", "shp_info_standardized", shp) >>
        ELSE IF InJsTables(shp) /\ ~mandatory /\ shp \in miss_stand_shp
        THEN << Finding("Warning", "shp_info_standardized", shp) >>
        ELSE <<>>

\* shp_info_standardized loops over the shapefiles of the zip file.
shp_info_standardized ==
    FlatMap(SetIteration, [shp \in shps_in_zip |-> StandardizedInfo(shp)], 1)

\* What shp_info_non_standardized prints for one non-standardized shapefile.
\* Its first two tests are `(a and b and empty) is False` and `(...) is True`:
\* when a is false the chain is False, and `False is False` holds.
NonStandardizedInfo(shp) ==
    LET ok == StartsWithX(shp)
        wrong == shp \in Range(unknown_shp)
        chain1 == IF ok /\ ~wrong THEN IsEmptyLayer(shp) ELSE FALSE
        chain3 == IF ~ok /\ wrong THEN IsEmptyLayer(shp) ELSE FALSE
    IN  IF chain1 = FALSE
        THEN << Finding("Ok", "shp_info_non_standardized", shp) >>
        ELSE IF chain1 = TRUE
        THEN << Finding("Warning", "shp_info_non_standardized", shp) >>
        ELSE IF chain3 = FALSE
        THEN << Finding("Warning", "naming", shp) >>
        ELSE IF chain3 = TRUE
        THEN << Finding("Warning", "naming", shp) >>
        ELSE <<>>

nstand_shps ==
    SelectSeqIdx(SetIteration,
        [i \in DOMAIN SetIteration |-> ~InJsTables(SetIteration[i])], 1)

shp_info_non_standardized ==
    FlatMap(nstand_shps, [shp \in shps_in_zip |-> NonStandardizedInfo(shp)], 1)


(***************************************************************************)
(* run_process.py: check_layers, one action per step.                      *)
(***************************************************************************)
Init ==
    /\ pkg \in Packages
    /\ verbose \in BOOLEAN
    /\ export \in BOOLEAN
    /\ destOk \in BOOLEAN
    /\ (~export => destOk)          \* the destination matters to exports only
    /\ setOrder \in {"fwd", "rev"}
    /\ phase = "Start"
    /\ shps_to_check = <<>>
    /\ li = 0
    /\ ci = 0
    /\ errors = 0
    /\ warnings = 0
    /\ status = 0
    /\ out = <<>>
    /\ calls = <<>>

inputs == << pkg, verbose, export, destOk, setOrder >>

StatusLine(kind, shp, ok) ==
    [sev |-> IF ok THEN "Ok" ELSE "Error", chk |-> kind, shp |-> shp]

\* e = fn(...); errors += e -- or the exception of fn ends check_layers.
Invoke(fn, shp, res) ==
    /\ calls' = Append(calls, [fn |-> fn, shp |-> shp])
    /\ out' = out \o res.out
    /\ IF res.raised
       THEN phase' = "Aborted" /\ UNCHANGED << errors, ci >>
       ELSE phase' = phase /\ errors' = errors + res.ret /\ ci' = ci + 1
    /\ UNCHANGED << inputs, shps_to_check, li, warnings, status >>

\* shp_info_standardized, then the list of standardized, non-empty layers.
InventoryStandardized ==
    /\ phase = "Start"
    /\ phase' = "InventoryStandardized"
    /\ out' = out \o shp_info_standardized
    /\ calls' = Append(calls, [fn |-> "shp_info_standardized", shp |-> "-"])
    /\ shps_to_check' = NonEmptyStandardized
    /\ status' = 0
    /\ UNCHANGED << inputs, li, ci, errors, warnings >>

\* The loop over shps_to_check begins.
BeginLayers ==
    /\ phase = "InventoryStandardized"
    /\ phase' = "PerLayer"
    /\ li' = 1 /\ ci' = 1 /\ errors' = 0
    /\ UNCHANGED << inputs, shps_to_check, warnings, status, out, calls >>

InLayer(step) == phase = "PerLayer" /\ li <= Len(shps_to_check) /\ ci = step
\* The loop variable shp.
current_shp == shps_to_check[li]

LayerValidity == InLayer(1) /\ Invoke("check_validity_shp_zip", current_shp, check_validity_shp_zip(current_shp))
\* mandatory_attrs_exist called for layers without invalid geometries only.
LayerAttrsExistIfValid ==
    /\ InLayer(2)
    /\ IF validity_shp_zip(current_shp) = 0
       THEN Invoke("mandatory_attrs_exist", current_shp, mandatory_attrs_exist(current_shp))
       ELSE /\ ci' = ci + 1
            /\ UNCHANGED << inputs, phase, shps_to_check, li, errors, warnings,
                            status, out, calls >>

LayerAttrsExist == InLayer(2) /\ Invoke("mandatory_attrs_exist", current_shp, mandatory_attrs_exist(current_shp))
LayerAttrsType == InLayer(3) /\ Invoke("mandatory_attrs_type", current_shp, mandatory_attrs_type(current_shp))
LayerAllowedValues == InLayer(4) /\ Invoke("allowed_values", current_shp, allowed_values(current_shp))
LayerWithinMun == InLayer(5) /\ Invoke("shp_within_mun", current_shp, shp_within_mun(current_shp))
LayerGaps == InLayer(6) /\ Invoke("check_gaps", current_shp, check_gaps(current_shp))

\* Geometries within VpsVpoAs_p and UzemniRezervy can overlap each other.
OverlapExempt(name) == name \in {"VpsVpoAs_p", "UzemniRezervy"}

LayerOverlaps ==
    /\ InLayer(7)
    /\ ~OverlapExempt(current_shp)
    /\ Invoke("check_overlaps", current_shp, check_overlaps(current_shp))

LayerOverlapsSkipped ==
    /\ InLayer(7)
    /\ OverlapExempt(current_shp)
    /\ ci' = ci + 1
    /\ UNCHANGED << inputs, phase, shps_to_check, li, errors, warnings, status, out, calls >>

LayerVuWithinUses == InLayer(8) /\ Invoke("vu_within_uses", current_shp, vu_within_uses(current_shp))
LayerPWithinZu == InLayer(9) /\ Invoke("p_within_zu", current_shp, p_within_zu(current_shp))
LayerKOutsideZu == InLayer(10) /\ Invoke("k_outside_zu", current_shp, k_outside_zu(current_shp))

\* LayerStatus without `status += 1`: the layer's Error is printed but not
\* counted.
LayerStatusNotCounted ==
    /\ InLayer(11)
    /\ out' = Append(out, StatusLine("layer_status", current_shp, errors = 0))
    /\ li' = li + 1 /\ ci' = 1 /\ errors' = 0
    /\ UNCHANGED << inputs, phase, shps_to_check, warnings, status, calls >>

\* The status of the layer; then the next layer, with errors = 0.
LayerStatus ==
    /\ InLayer(11)
    /\ out' = Append(out, StatusLine("layer_status", current_shp, errors = 0))
    /\ status' = IF errors = 0 THEN status ELSE status + 1
    /\ li' = li + 1 /\ ci' = 1 /\ errors' = 0
    /\ UNCHANGED << inputs, phase, shps_to_check, warnings, calls >>


\* The loop over the layers is over: relationships between layers.
BeginRelationships ==
    /\ phase = "PerLayer"
    /\ li > Len(shps_to_check)
    /\ phase' = "Relationships"
    /\ errors' = 0 /\ warnings' = 0 /\ ci' = 1
    /\ UNCHANGED << inputs, shps_to_check, li, status, out, calls >>

\* `"PlochyRZV_p" and "KoridoryP_p" in shps_to_check`: the first operand is a
\* non-empty string, so the test is the membership of KoridoryP_p alone.
BothBranch == "KoridoryP_p" \in Range(shps_to_check)
PrzvBranch ==
    /\ ~BothBranch
    /\ "PlochyRZV_p" \in Range(shps_to_check)
    /\ "KoridoryP_p" \notin Range(shps_to_check)

InRelationships(step) == phase = "Relationships" /\ ci = step

RelCoveredMunBoth ==
    InRelationships(1) /\ BothBranch /\ Invoke("covered_mun_both", "-", covered_mun_both)
RelCheckGapsCovered ==
    InRelationships(2) /\ BothBranch /\ Invoke("check_gaps_covered", "-", check_gaps_covered)
RelOverlapsCoveredMun ==
    InRelationships(3) /\ BothBranch /\ Invoke("overlaps_covered_mun", "-", overlaps_covered_mun)
RelCoveredMunPrzv ==
    InRelationships(1) /\ PrzvBranch /\ Invoke("covered_mun_przv", "-", covered_mun_przv)

\* "Checking relationships between layers cannot be check due to missing
\* PlochyRZV_p.": printed without a severity.
RelCannotCheck ==
    /\ InRelationships(1) /\ ~BothBranch /\ ~PrzvBranch
    /\ out' = Append(out, Finding("Info", "relationships", "-"))
    /\ ci' = 2
    /\ UNCHANGED << inputs, phase, shps_to_check, li, errors, warnings, status, calls >>

RelDone == IF BothBranch THEN ci = 4 ELSE ci = 2

\* The status of the relationships: Ok, Warning or Error.
RelationshipStatus ==
    /\ phase = "Relationships" /\ RelDone
    /\ out' = Append(out,
                [sev |-> IF errors = 0 THEN "Ok"
                         ELSE IF errors = 0 /\ warnings > 0 THEN "Warning"
                         ELSE "Error",
                 chk |-> "relationship_status", shp |-> "-"])
    /\ status' = IF errors = 0 THEN status ELSE status + 1
    /\ ci' = 5
    /\ UNCHANGED << inputs, phase, shps_to_check, li, errors, warnings, calls >>

\* The non-standardized layers that are checked: X names, not empty.
NonStandardizedToCheck ==
    SelectSeqIdx(SetIteration,
        [i \in DOMAIN SetIteration |->
            /\ ~InJsTables(SetIteration[i])
            /\ StartsWithX(SetIteration[i])
            /\ ~IsEmptyLayer(SetIteration[i])], 1)

\* The non-standardized layers taken up right after the loop over the
\* standardized layers, before the relationships.
InventoryNonStandardizedEarly ==
    /\ phase = "PerLayer" /\ li > Len(shps_to_check)
    /\ phase' = "NonStandardized"
    /\ out' = out \o shp_info_non_standardized
    /\ calls' = Append(calls, [fn |-> "shp_info_non_standardized", shp |-> "-"])
    /\ shps_to_check' = NonStandardizedToCheck
    /\ errors' = 0 /\ li' = 1 /\ ci' = 1
    /\ UNCHANGED << inputs, warnings, status >>

\* shp_info_non_standardized, then the list of non-standardized layers.
InventoryNonStandardized ==
    /\ phase = "Relationships" /\ ci = 5
    /\ phase' = "NonStandardized"
    /\ out' = out \o shp_info_non_standardized
    /\ calls' = Append(calls, [fn |-> "shp_info_non_standardized", shp |-> "-"])
    /\ shps_to_check' = NonStandardizedToCheck
    /\ errors' = 0 /\ li' = 1 /\ ci' = 1
    /\ UNCHANGED << inputs, warnings, status >>

InNonStd(step) == phase = "NonStandardized" /\ li <= Len(shps_to_check) /\ ci = step

NonStdValidity ==
    InNonStd(1) /\ Invoke("check_validity_shp_zip", current_shp, check_validity_shp_zip(current_shp))
NonStdWithinMun ==
    InNonStd(2) /\ Invoke("shp_within_mun", current_shp, shp_within_mun(current_shp))
\* The loop body without the call of check_gaps.
NonStdGapsLeftOut ==
    /\ InNonStd(3)
    /\ ci' = ci + 1
    /\ UNCHANGED << inputs, phase, shps_to_check, li, errors, warnings, status, out, calls >>
NonStdGaps ==
    InNonStd(3) /\ Invoke("check_gaps", current_shp, check_gaps(current_shp))
NonStdOverlaps ==
    InNonStd(4) /\ Invoke("check_overlaps", current_shp, check_overlaps(current_shp))

\* The next non-standardized layer; errors keeps adding up over the layers.
NonStdNext ==
    /\ InNonStd(5)
    /\ li' = li + 1 /\ ci' = 1
    /\ UNCHANGED << inputs, phase, shps_to_check, errors, warnings, status, out, calls >>

\* The end of check_layers: the note that there are no non-standardized
\* layers, the unknown shapefiles, the status of the non-standardized layers
\* and the status of the package.
Finish ==
    /\ phase = "NonStandardized"
    /\ li > Len(shps_to_check)
    /\ phase' = "Finished"
    /\ LET none == IF Len(shps_to_check) > 0 THEN <<>>
                   ELSE << Finding("Info", "non_standardized", "-") >>
           unknown == IF Len(unknown_shp) > 0
                      THEN << Finding("Error", "unknown_shp", "-") >>
                      ELSE <<>>
           st == IF errors = 0 THEN status ELSE status + 1
       IN  /\ status' = st
           /\ out' = out \o none \o unknown
                        \o << StatusLine("non_standardized_status", "-", errors = 0),
                              StatusLine("package_status", "-", st = 0) >>
    /\ UNCHANGED << inputs, shps_to_check, li, ci, errors, warnings, calls >>

Next ==
    \/ InventoryStandardized
    \/ BeginLayers
    \/ LayerValidity
    \/ LayerAttrsExist
    \/ LayerAttrsType
    \/ LayerAllowedValues
    \/ LayerWithinMun
    \/ LayerGaps
    \/ LayerOverlaps
    \/ LayerOverlapsSkipped
    \/ LayerVuWithinUses
    \/ LayerPWithinZu
    \/ LayerKOutsideZu
    \/ LayerStatus
    \/ BeginRelationships
    \/ RelCoveredMunBoth
    \/ RelCheckGapsCovered
    \/ RelOverlapsCoveredMun
    \/ RelCoveredMunPrzv
    \/ RelCannotCheck
    \/ RelationshipStatus
    \/ InventoryNonStandardized
    \/ NonStdValidity
    \/ NonStdWithinMun
    \/ NonStdGaps
    \/ NonStdOverlaps
    \/ NonStdNext
    \/ Finish

Spec == Init /\ [][Next]_vars


(***************************************************************************)
(* What a run has printed.                                                 *)
(***************************************************************************)
SectionStatusKinds == {"layer_status", "relationship_status", "non_standardized_status"}
StatusKinds == SectionStatusKinds \cup {"package_status"}

\* The statuses of the sections printed so far.
SectionStatuses == {i \in DOMAIN out : out[i].chk \in SectionStatusKinds}

\* The findings printed so far (everything but the status lines).
Findings == {i \in DOMAIN out : out[i].chk \notin StatusKinds}
FindingsOf(sev) == {i \in Findings : out[i].sev = sev}

\* The status of the package, once printed.
PackageStatusPrinted == \E i \in DOMAIN out : out[i].chk = "package_status"
PackageStatus ==
    out[CHOOSE i \in DOMAIN out : out[i].chk = "package_status"].sev

(***************************************************************************)
(* C1: at the end of a run the package status is Ok exactly when the       *)
(* status of every checked standardized layer, of the relationships and of *)
(* the non-standardized layers is Ok, that is when the counter `status`    *)
(* was never incremented.                                                  *)
(***************************************************************************)
C1_PackageOkIffSectionsOk ==
    phase = "Finished" =>
        /\ PackageStatusPrinted
        /\ (PackageStatus = "Ok") <=> (\A i \in SectionStatuses : out[i].sev = "Ok")
        /\ (PackageStatus = "Ok") <=> (status = 0)
        /\ status = Cardinality({i \in SectionStatuses : out[i].sev # "Ok"})

\* A finished run whose only section that is not Ok is a layer.
C1_Witness ==
    /\ phase = "Finished"
    /\ PackageStatus = "Error"
    /\ \E i \in SectionStatuses : out[i].chk = "layer_status" /\ out[i].sev = "Error"
    /\ \A i \in SectionStatuses : out[i].chk # "layer_status" => out[i].sev = "Ok"

(***************************************************************************)
(* C2: a finding of severity Error anywhere in a run (inventory, a check   *)
(* of a layer, a skipped check, a relationship check) makes the status of  *)
(* the package Error.  The code does not do this: the Error findings of    *)
(* the inventory, of the unknown shapefiles and of the skipped checks that *)
(* return 0 are not counted.                                               *)
(***************************************************************************)
C2_ErrorFindingMakesPackageError ==
    (phase = "Finished" /\ FindingsOf("Error") # {}) => PackageStatus = "Error"

\* A finished run with the Error finding of the unknown shapefiles and the
\* package status Ok.
C2_Witness ==
    /\ phase = "Finished"
    /\ \E i \in FindingsOf("Error") : out[i].chk = "unknown_shp"
    /\ PackageStatus = "Ok"

(***************************************************************************)
(* C3: a run with at least one Warning finding and no Error finding ends   *)
(* with the package status Warning.  The code prints only Ok or Error as   *)
(* the status of the package.                                              *)
(***************************************************************************)
C3_OnlyWarningsMakePackageWarning ==
    (phase = "Finished" /\ FindingsOf("Warning") # {} /\ FindingsOf("Error") = {})
        => PackageStatus = "Warning"

\* A finished run with the Warning of an empty non-standardized layer, no
\* Error finding, and the package status Ok.
C3_Witness ==
    /\ phase = "Finished"
    /\ \E i \in FindingsOf("Warning") : out[i].chk = "shp_info_non_standardized"
    /\ FindingsOf("Error") = {}
    /\ PackageStatus = "Ok"


\* The last checker invocation and the last line printed.
LastCall == calls[Len(calls)]
LastOut == out[Len(out)]

\* A step that is one checker invocation.
IsInvocation == calls' = Append(calls, calls'[Len(calls')]) /\ Len(calls') = Len(calls) + 1
Invoked == calls'[Len(calls')]
\* What the invocation printed.
Printed == SubSeq(out', Len(out) + 1, Len(out'))
\* The invocation ended with an exception.
InvocationRaised == Len(out') > 0 /\ out'[Len(out')].sev = "Unexpected"

(***************************************************************************)
(* C4: on a layer with an invalid geometry, shp_within_mun, check_gaps,    *)
(* check_overlaps, vu_within_uses, p_within_zu and k_outside_zu skip their *)
(* test, print an Error finding and add to the count of errors.  In the    *)
(* code only check_gaps adds to the count; the others return 0.            *)
(***************************************************************************)
GatedChecks ==
    {"shp_within_mun", "check_gaps", "check_overlaps",
     "vu_within_uses", "p_within_zu", "k_outside_zu"}

C4_SkippedCheckCountsAsError ==
    [][ ( /\ IsInvocation
          /\ Invoked.fn \in GatedChecks
          /\ validity_shp_zip(Invoked.shp) > 0
          /\ ~InvocationRaised )
        => ( /\ errors' > errors
             /\ \E i \in DOMAIN Printed :
                    Printed[i].sev = "Error" /\ Printed[i].shp = Invoked.shp ) ]_vars

\* check_overlaps has just printed its Error on a layer with an invalid
\* geometry, and the count of errors holds the invalid geometries only.
C4_Witness ==
    /\ phase = "PerLayer"
    /\ calls # <<>>
    /\ LastCall.fn = "check_overlaps"
    /\ validity_shp_zip(LastCall.shp) > 0
    /\ LastOut = Finding("Error", "overlaps", LastCall.shp)
    /\ errors = validity_shp_zip(LastCall.shp) + mandatory_attrs_exist(LastCall.shp).ret
                  + mandatory_attrs_type(LastCall.shp).ret + allowed_values(LastCall.shp).ret
                  + check_gaps(LastCall.shp).ret

(***************************************************************************)
(* C5: a checker invocation that fails with an I/O error is aborted alone: *)
(* check_layers records one Error finding for it and goes on with the next *)
(* checker.  In the code the exception is re-raised by the checker and     *)
(* check_layers does not catch it: the run ends there.                     *)
(***************************************************************************)
C5_FailedInvocationIsRecordedAndRunContinues ==
    [][ (IsInvocation /\ InvocationRaised)
        => ( /\ phase' = phase
             /\ ci' = ci + 1
             /\ Cardinality({i \in DOMAIN Printed : Printed[i].sev = "Error"}) = 1 ) ]_vars

\* The export of the invalid geometries failed on the unwritable destination
\* and the run ended without a status of the package.
C5_Witness ==
    /\ phase = "Aborted"
    /\ export /\ ~destOk
    /\ LastCall.fn = "check_validity_shp_zip"
    /\ LastOut.sev = "Unexpected"
    /\ ~PackageStatusPrinted

(***************************************************************************)
(* C6: the phases of a run follow one another in the order inventory of    *)
(* the standardized layers, checks per layer, relationships, checks of the *)
(* non-standardized layers, finished: every checker is invoked in its own  *)
(* phase, a phase is only left for the next one (or by an exception), and  *)
(* none is entered twice.                                                  *)
(***************************************************************************)
PhaseRank(ph) ==
    CASE ph = "Start" -> 0
      [] ph = "InventoryStandardized" -> 1
      [] ph = "PerLayer" -> 2
      [] ph = "Relationships" -> 3
      [] ph = "NonStandardized" -> 4
      [] ph = "Finished" -> 5
      [] ph = "Aborted" -> 6

\* The phase a checker invocation belongs to.
CallRank(c) ==
    CASE c.fn = "shp_info_standardized" -> 1
      [] c.fn \in {"covered_mun_both", "covered_mun_przv",
                   "check_gaps_covered", "overlaps_covered_mun"} -> 3
      [] c.fn = "shp_info_non_standardized" -> 4
      [] OTHER -> IF InJsTables(c.shp) THEN 2 ELSE 4

C6_PhasesInOrder ==
    [][ /\ phase' # phase =>
            \/ phase' = "Aborted"
            \/ PhaseRank(phase') = PhaseRank(phase) + 1
        /\ IsInvocation =>
            /\ CallRank(Invoked) = PhaseRank(IF phase' = "Aborted" THEN phase ELSE phase')
            /\ \A i \in DOMAIN calls : CallRank(calls[i]) <= CallRank(Invoked) ]_vars

\* A finished run that invoked checkers in each of the four phases.
C6_Witness ==
    /\ phase = "Finished"
    /\ \A r \in 1..4 : \E i \in DOMAIN calls : CallRank(calls[i]) = r


(***************************************************************************)
(* C7: for every standardized, non-empty layer the first check invoked is  *)
(* the validity check, and the checks of the existence, the types and the  *)
(* values of its attributes are invoked right after it, whether or not the *)
(* layer has invalid geometries.                                           *)
(***************************************************************************)
\* The invocations of the checks of the standardized layer shp, in order.
CallsOfLayer(name) ==
    SelectSeqIdx(calls,
        [i \in DOMAIN calls |-> CallRank(calls[i]) = 2 /\ calls[i].shp = name], 1)

LayerCheckOrder ==
    << "check_validity_shp_zip", "mandatory_attrs_exist",
       "mandatory_attrs_type", "allowed_values" >>

C7_ValidityFirstAttributesAlways ==
    \A name \in Range(js_tables) :
        LET cs == CallsOfLayer(name)
        IN  /\ \A k \in 1..4 : k <= Len(cs) => cs[k].fn = LayerCheckOrder[k]
            \* a layer whose checks went on past the validity check without an
            \* exception has had its three attribute checks
            /\ (phase = "PerLayer" /\ li <= Len(shps_to_check)
                    /\ current_shp = name /\ ci > 4) => Len(cs) >= 4
            /\ (\E i \in DOMAIN out : out[i].chk = "layer_status" /\ out[i].shp = name)
                    => Len(cs) >= 4

\* A layer with an invalid geometry whose attribute checks have been invoked.
C7_Witness ==
    \E name \in Range(js_tables) :
        /\ name \in shps_in_zip
        /\ validity_shp_zip(name) > 0
        /\ Len(CallsOfLayer(name)) >= 4
        /\ \E i \in DOMAIN out : out[i].chk = "values" /\ out[i].shp = name

(***************************************************************************)
(* C8: shp_info_standardized reports an Error finding for every mandatory  *)
(* standardized layer that is absent from the package and a Warning        *)
(* finding for every absent optional one.  The code loops over the         *)
(* shapefiles that are in the zip file, so an absent layer is never named. *)
(***************************************************************************)
InventoryOf(name) ==
    {i \in DOMAIN out : out[i].chk = "shp_info_standardized" /\ out[i].shp = name}

C8_AbsentLayersReported ==
    phase # "Start" =>
        \A name \in Range(js_tables) \ shps_in_zip :
            \E i \in InventoryOf(name) :
                out[i].sev = IF name \in Range(mandatory_tables) THEN "Error" ELSE "Warning"

\* The inventory has run on a package without ReseneUzemi_p and has printed
\* nothing about it.
C8_Witness ==
    /\ phase = "InventoryStandardized"
    /\ "ReseneUzemi_p" \notin shps_in_zip
    /\ InventoryOf("ReseneUzemi_p") = {}
    /\ \E i \in DOMAIN out : out[i].chk = "shp_info_standardized"

(***************************************************************************)
(* C9: shp_info_non_standardized puts every shapefile without a            *)
(* standardized name into exactly one class: Ok only if its name starts    *)
(* with X and it is not empty; a name without the X is reported as a       *)
(* naming violation, never as Ok.  The code reports a name without the X   *)
(* as "Ok: ... is included".                                               *)
(***************************************************************************)
NonStdInventoryOf(name) ==
    {i \in DOMAIN out : out[i].chk \in {"shp_info_non_standardized", "naming"}
                        /\ out[i].shp = name}

C9_NonStandardizedClasses ==
    PhaseRank(phase) \in {4, 5} =>
        \A name \in shps_in_zip \ Range(js_tables) :
            /\ Cardinality(NonStdInventoryOf(name)) = 1
            /\ \A i \in NonStdInventoryOf(name) :
                /\ out[i].sev = "Ok" => (StartsWithX(name) /\ ~IsEmptyLayer(name))
                /\ ~StartsWithX(name) => (out[i].chk = "naming" /\ out[i].sev # "Ok")

\* The shapefile Doplnek has been reported as Ok.
C9_Witness ==
    /\ PhaseRank(phase) \in {4, 5}
    /\ \E i \in NonStdInventoryOf("Doplnek") : out[i].sev = "Ok"

(***************************************************************************)
(* C10: covered_mun_przv on valid layers: when the features of PlochyRZV_p *)
(* together equal ReseneUzemi_p it reports Ok and returns 0; when they     *)
(* cover a part of it only, it reports Error (the deficit being the single *)
(* parts of the boundary minus the dissolved layer) and returns non-zero.  *)
(* The code reports Error and returns 1 in both cases: its test            *)
(* `diff is None` never holds.                                             *)
(***************************************************************************)
PrzvJustReturned ==
    /\ phase = "Relationships" /\ ci = 2
    /\ calls # <<>> /\ LastCall.fn = "covered_mun_przv"
    /\ validity_shp_zip("PlochyRZV_p") = 0 /\ validity_shp_zip("ReseneUzemi_p") = 0

\* exploded: the single parts of the boundary minus the dissolved layer.
PrzvDeficitParts == Components(CoverDiff(Dissolved("PlochyRZV_p")))

C10_CoverageByPlochyRZV ==
    PrzvJustReturned =>
        IF Dissolved("PlochyRZV_p") = borders_polygon
        THEN errors = 0 /\ LastOut = Finding("Ok", "covered_mun_przv", "-")
        ELSE /\ errors > 0 /\ LastOut = Finding("Error", "covered_mun_przv", "-")
             /\ PrzvDeficitParts # {}

\* PlochyRZV_p equals ReseneUzemi_p, and covered_mun_przv has reported Error
\* and returned 1.
C10_Witness ==
    /\ PrzvJustReturned
    /\ Dissolved("PlochyRZV_p") = borders_polygon
    /\ PrzvDeficitParts = {}
    /\ errors = 1
    /\ LastOut = Finding("Error", "covered_mun_przv", "-")


(***************************************************************************)
(* The checkers on their own: a second specification, in which one checker *)
(* is applied to a package drawn from families of layers that vary the     *)
(* geometries, the identifiers and the attribute values systematically.    *)
(* The variables are those of a run; `errors` holds what the checker       *)
(* returned, `out` what it printed and `calls` the checker applied.        *)
(***************************************************************************)
\* The most features a layer of these families has.
MaxFeatures == 2

\* The shapes the geometries of these families are drawn from.
Block3 == {c \in Cells : c[1] <= 3 /\ c[2] <= 3}
Ring3 == Block3 \ {<<2, 2>>}
Corner == {<<GridW, GridH>>}
Centre == {<<2, 2>>}
TwoHoles == Cells \ {<<2, 2>>, <<3, 3>>}
Shapes == {Full, West, East, WestPlus, Block3, Ring3, Corner, Centre, TwoHoles}

\* The boundaries: rectangles, from the largest to the smallest.
Boundaries == {Full, Block3, WestPlus, West}

\* The sequences of 1..n shapes.
RECURSIVE ShapeSeqs(_)
ShapeSeqs(n) ==
    IF n = 0 THEN {<<>>}
    ELSE LET shorter == ShapeSeqs(n - 1)
         IN  shorter \cup {Append(q, g) : q \in shorter, g \in Shapes}

\* Layers with the given geometries, all valid, with well-formed attributes.
BoundaryOf(g) ==
    Layer(<<"obec_kod">>, <<"int64">>, << Feature(g, TRUE, <<Int64(MunCode)>>) >>)
PlochyRZVOf(gs) ==
    Layer(<<"cash", "typ", "index">>, <<"int64", "object", "object">>,
          [i \in DOMAIN gs |-> Feature(gs[i], TRUE, <<Int64(1), vBU, None>>)])
KoridoryPOf(gs) ==
    Layer(<<"id">>, <<"object">>, [i \in DOMAIN gs |-> Feature(gs[i], TRUE, <<vCPU1>>)])
NonStdOf(gs) ==
    Layer(<<"poznamka">>, <<"object">>, [i \in DOMAIN gs |-> Feature(gs[i], TRUE, <<vNote>>)])

\* A package from its named layers (a set of <<name, layer>> pairs).
PackageFrom(pairs) ==
    [shp \in {p[1] : p \in pairs} |-> (CHOOSE p \in pairs : p[1] = shp)[2]]

\* Family of the geometric checks: a boundary, PlochyRZV_p with one or more
\* features, and KoridoryP_p absent or with one feature; or a boundary and a
\* non-standardized layer.
GeometryPackages ==
    LET layers == ShapeSeqs(MaxFeatures) \ {<<>>}
    IN  {PackageFrom({<<"ReseneUzemi_p", BoundaryOf(b)>>, <<"PlochyRZV_p", PlochyRZVOf(gs)>>}) :
            b \in Boundaries, gs \in layers}
        \cup
        {PackageFrom({<<"ReseneUzemi_p", BoundaryOf(b)>>, <<"PlochyRZV_p", PlochyRZVOf(gs)>>,
                      <<"KoridoryP_p", KoridoryPOf(<<k>>)>>}) :
            b \in Boundaries, gs \in layers, k \in Shapes}
        \cup
        {PackageFrom({<<"ReseneUzemi_p", BoundaryOf(b)>>, <<"X_Doplnek", NonStdOf(gs)>>}) :
            b \in Boundaries, gs \in layers}

\* Family of the subset checks: VpsVpoAs_p against USES_p and PlochyZmen_p
\* against ZastaveneUzemi_p (which is West in ZastaveneUzemiOk).  Every
\* option leaves one precondition unmet, or meets all of them with the
\* selected feature inside, outside or across the target.
vLBC1 == Str(<<"L", "B", "C", ".", "1">>)
vLBC == Str(<<"L", "B", "C">>)
UsesOf(g, ok) ==
    Layer(<<"cash", "typ", "oznaceni">>, <<"int64", "object", "object">>,
          << Feature(g, ok, <<Int64(1), vLBC, vLBC1>>) >>)
VpsVpoAsOf(col, g, ok, v) ==
    Layer(<<col>>, <<"object">>, << Feature(g, ok, <<v>>), Feature(East, TRUE, <<vVD1>>) >>)
PlochyZmenOf(col, g, ok, v) ==
    Layer(<<col, "etapizace">>, <<"object", "object">>,
          << Feature(g, ok, <<v, None>>), Feature(Corner, TRUE, <<vZ1, None>>) >>)

VpsVpoAsOptions ==
    { Absent,
      VpsVpoAsOf("id", West, TRUE, vVU1),          \* VU inside USES_p
      VpsVpoAsOf("id", WestPlus, TRUE, vVU1),      \* VU across the edge of USES_p
      VpsVpoAsOf("id", West, TRUE, vVD1),          \* no VU feature
      VpsVpoAsOf("poznamka", West, TRUE, vVU1),    \* no id attribute
      VpsVpoAsOf("id", West, FALSE, vVU1),         \* invalid geometry
      Layer(<<"id">>, <<"object">>, <<>>) }        \* empty
UsesOptions ==
    { Absent, UsesOf(West, TRUE), UsesOf(West, FALSE),
      Layer(<<"cash", "typ", "oznaceni">>, <<"int64", "object", "object">>, <<>>) }
PlochyZmenOptions ==
    { Absent,
      PlochyZmenOf("id", West, TRUE, vP1),         \* P inside ZastaveneUzemi_p
      PlochyZmenOf("id", WestPlus, TRUE, vP1),     \* P across its edge
      PlochyZmenOf("id", East, TRUE, vK1),         \* K outside ZastaveneUzemi_p
      PlochyZmenOf("id", West, TRUE, vK1),         \* K inside it
      PlochyZmenOf("id", WestPlus, TRUE, vK1),     \* K across its edge
      PlochyZmenOf("id", West, TRUE, vZ1),         \* neither P nor K
      PlochyZmenOf("poznamka", West, TRUE, vP1),   \* no id attribute
      PlochyZmenOf("id", West, FALSE, vP1),        \* invalid geometry
      PlochyZmenEmpty }
ZastaveneUzemiOptions ==
    { Absent, ZastaveneUzemiOk, ZastaveneUzemiEmpty,
      Layer(<<"obec_kod">>, <<"int64">>, << Feature(West, FALSE, <<Int64(MunCode)>>) >>) }

SubsetPackages ==
    { PackageFrom({p \in { <<"ReseneUzemi_p", ReseneUzemiOk>>, <<"VpsVpoAs_p", v>>,
                           <<"USES_p", u>>, <<"PlochyZmen_p", z>>,
                           <<"ZastaveneUzemi_p", t>> } : p[2] # Absent}) :
        v \in VpsVpoAsOptions, u \in UsesOptions,
        z \in PlochyZmenOptions, t \in ZastaveneUzemiOptions }

\* Family of the value check: PlochyZmen_p with one or more rows whose id
\* and etapizace are null, permitted or not permitted.
ValueRows ==
    { Feature(West, TRUE, <<i, e>>) : i \in {None, vP1, vQQ}, e \in {None, vE, vQQ} }

RECURSIVE RowSeqs(_)
RowSeqs(n) ==
    IF n = 0 THEN {<<>>}
    ELSE LET shorter == RowSeqs(n - 1)
         IN  shorter \cup {Append(q, r) : q \in shorter, r \in ValueRows}

ValuePackages ==
    { PackageFrom({ <<"ReseneUzemi_p", ReseneUzemiOk>>,
                    <<"PlochyZmen_p",
                      Layer(<<"id", "etapizace">>, <<"object", "object">>, rows)>> }) :
        rows \in RowSeqs(MaxFeatures) \ {<<>>} }

\* Family of the typ rule: a layer whose rule for typ is set membership, with
\* the typ column under one of its letter cases, every other mandatory
\* attribute present and permitted, and one or more rows whose typ is
\* permitted or not.
TypCases == {"typ", "Typ", "TYP"}
TypLayer(shp, col, typs) ==
    CASE shp = "PlochyRZV_p" ->
            Layer(<<"cash", col, "index">>, <<"int64", "object", "object">>,
                  [i \in DOMAIN typs |-> Feature(West, TRUE, <<Int64(1), typs[i], None>>)])
      [] shp = "UzemniRezervy_p" ->
            Layer(<<"id", col>>, <<"object", "object">>,
                  [i \in DOMAIN typs |->
                      Feature(West, TRUE, <<Str(<<"R", ".", "1">>), typs[i]>>)])
      [] shp = "USES_p" ->
            Layer(<<"cash", col, "oznaceni">>, <<"int64", "object", "object">>,
                  [i \in DOMAIN typs |-> Feature(West, TRUE, <<Int64(1), typs[i], vLBC1>>)])

\* A permitted typ of the layer, and a typ permitted for none.
TypOk(shp) == IF shp = "USES_p" THEN vLBC ELSE vBU
TypSeqs(shp) ==
    LET vs == {TypOk(shp), vQQ}
    IN  { <<a>> : a \in vs } \cup { <<a, b>> : a \in vs, b \in vs }

TypPackages ==
    { PackageFrom({ <<"ReseneUzemi_p", ReseneUzemiOk>>, <<shp, TypLayer(shp, col, typs)>> }) :
        << shp, col, typs >> \in
            UNION { {shp} \X TypCases \X TypSeqs(shp) :
                      shp \in {"PlochyRZV_p", "UzemniRezervy_p", "USES_p"} } }

\* Family of the attribute checks: a layer with one feature and with any
\* choice of its mandatory columns (under two letter cases for the first one)
\* and of a column that is not mandatory, inside a larger or a smaller
\* boundary.  A column is <<name, dtype, value>>.
AttrLayer(cs) ==
    Layer([i \in DOMAIN cs |-> cs[i][1]], [i \in DOMAIN cs |-> cs[i][2]],
          << Feature(West, TRUE, [i \in DOMAIN cs |-> cs[i][3]]) >>)

Opt(S) == {<<>>} \cup {<<c>> : c \in S}

AttrColumns(shp) ==
    LET note == Opt({ <<"poznamka", "object", vNote>> })
    IN  CASE shp = "PlochyZmen_p" ->
                { a \o b \o c :
                    a \in Opt({ <<"id", "object", vP1>>, <<"ID", "object", vP1>> }),
                    b \in Opt({ <<"etapizace", "object", vE>> }),
                    c \in note }
          [] shp = "SystemVerProstr_p" ->
                { a \o c :
                    a \in Opt({ <<"obec_kod", "int64", Int64(MunCode)>>,
                                <<"OBEC_KOD", "int64", Int64(MunCode)>> }),
                    c \in note }

AttributePackages ==
    { PackageFrom({ <<"ReseneUzemi_p", BoundaryOf(b)>>, <<shp, AttrLayer(cs)>> }) :
        << b, shp, cs >> \in
            UNION { {Full, Block3} \X {shp} \X AttrColumns(shp) :
                      shp \in {"PlochyZmen_p", "SystemVerProstr_p"} } }

\* Family of the validity check: a layer of one or more features, each of
\* them valid or not.
ValidityLayers ==
    { Layer(<<"poznamka">>, <<"object">>, fs) :
        fs \in { [i \in 1..n |-> Feature(West, v[i], <<vNote>>)] :
                   << n, v >> \in UNION { {n} \X [1..n -> BOOLEAN] : n \in 1..MaxFeatures } } }

ValidityPackages ==
    { PackageFrom({ <<"ReseneUzemi_p", ReseneUzemiOk>>, <<"X_Doplnek", l>> }) :
        l \in ValidityLayers }

CheckerPackages ==
    GeometryPackages \cup SubsetPackages \cup ValuePackages \cup TypPackages
        \cup AttributePackages \cup ValidityPackages

InitCheckers ==
    /\ pkg \in CheckerPackages
    /\ verbose = FALSE
    /\ export \in BOOLEAN
    /\ destOk = TRUE
    /\ setOrder = "fwd"
    /\ phase = "Checker"
    /\ shps_to_check = <<>>
    /\ li = 0
    /\ ci = 0
    /\ errors = 0
    /\ warnings = 0
    /\ status = 0
    /\ out = <<>>
    /\ calls = <<>>

\* errors = fn(...): one checker is applied to the package.
Apply(fn, shp, res) ==
    /\ phase = "Checker"
    /\ phase' = IF res.raised THEN "Aborted" ELSE "Applied"
    /\ calls' = << [fn |-> fn, shp |-> shp] >>
    /\ out' = res.out
    /\ errors' = res.ret
    /\ UNCHANGED << inputs, shps_to_check, li, ci, warnings, status >>

ApplyShpWithinMun == \E shp \in DOMAIN pkg : Apply("shp_within_mun", shp, shp_within_mun(shp))
ApplyCheckGaps == \E shp \in DOMAIN pkg : Apply("check_gaps", shp, check_gaps(shp))
ApplyCheckOverlaps == \E shp \in DOMAIN pkg : Apply("check_overlaps", shp, check_overlaps(shp))
ApplyCoveredMunBoth == Apply("covered_mun_both", "-", covered_mun_both)
ApplyVuWithinUses == \E shp \in DOMAIN pkg : Apply("vu_within_uses", shp, vu_within_uses(shp))
ApplyPWithinZu == \E shp \in DOMAIN pkg : Apply("p_within_zu", shp, p_within_zu(shp))
ApplyKOutsideZu == \E shp \in DOMAIN pkg : Apply("k_outside_zu", shp, k_outside_zu(shp))
ApplyAllowedValues == \E shp \in DOMAIN pkg : Apply("allowed_values", shp, allowed_values(shp))

\* The package is given again with the features of a layer in the other
\* order, with a strictly smaller boundary, or with one feature of a layer
\* added a second time (whenever that is a package of the families).
Reordered(shp) == [pkg EXCEPT ![shp].feats = Reverse(@)]
Shrunk(b) == [pkg EXCEPT !["ReseneUzemi_p"] = BoundaryOf(b)]
Duplicated(shp, i) == [pkg EXCEPT ![shp].feats = Append(@, @[i])]

UnchangedButPkg ==
    UNCHANGED << verbose, export, destOk, setOrder, phase, shps_to_check, li, ci,
                 errors, warnings, status, out, calls >>

\* After check_gaps was applied, the layer is given with its features in the
\* other order; the result of the first order stays in errors and out.
ReorderFeatures ==
    /\ phase \in {"Applied", "Aborted"}
    /\ LastCall.fn = "check_gaps"
    /\ Reordered(LastCall.shp) \in CheckerPackages
    /\ pkg' = Reordered(LastCall.shp)
    /\ phase' = "Reordered"
    /\ UNCHANGED << verbose, export, destOk, setOrder, shps_to_check, li, ci,
                    errors, warnings, status, out, calls >>

\* After shp_within_mun was applied, the package is given with a strictly
\* smaller boundary; the result for the larger one stays in errors and out.
ShrinkBoundary ==
    /\ phase = "Applied"
    /\ LastCall.fn = "shp_within_mun"
    /\ \E b \in Boundaries :
          /\ b \subseteq borders_polygon /\ b # borders_polygon
          /\ Shrunk(b) \in CheckerPackages
          /\ pkg' = Shrunk(b)
    /\ phase' = "Shrunk"
    /\ UNCHANGED << verbose, export, destOk, setOrder, shps_to_check, li, ci,
                    errors, warnings, status, out, calls >>

\* Before a checker is applied, one feature of a layer is added once more.
AddDuplicate ==
    /\ phase = "Checker"
    /\ \E shp \in DOMAIN pkg :
          /\ Len(pkg[shp].feats) < MaxFeatures
          /\ \E i \in DOMAIN pkg[shp].feats :
                Duplicated(shp, i) \in CheckerPackages /\ pkg' = Duplicated(shp, i)
    /\ UnchangedButPkg

ApplyMandatoryAttrsExist ==
    \E shp \in DOMAIN pkg : Apply("mandatory_attrs_exist", shp, mandatory_attrs_exist(shp))
ApplyCheckValidity ==
    \E shp \in DOMAIN pkg : Apply("check_validity_shp_zip", shp, check_validity_shp_zip(shp))

\* The sequence without its i-th element.
RemoveAt(seq, i) == SubSeq(seq, 1, i - 1) \o SubSeq(seq, i + 1, Len(seq))

\* The package with the i-th column of a layer removed.
WithoutColumn(shp, i) ==
    [pkg EXCEPT ![shp] =
        Layer(RemoveAt(@.cols, i), RemoveAt(@.dtypes, i),
              [r \in DOMAIN @.feats |->
                  Feature(@.feats[r].geom, @.feats[r].valid, RemoveAt(@.feats[r].vals, i))])]

\* After mandatory_attrs_exist was applied, the layer is given with one of
\* its mandatory columns removed; the earlier result stays in errors and out.
RemoveColumn ==
    /\ phase = "Applied"
    /\ LastCall.fn = "mandatory_attrs_exist"
    /\ \E i \in DOMAIN pkg[LastCall.shp].cols :
          /\ pkg[LastCall.shp].cols[i] \in Range(Included(LastCall.shp))
          /\ WithoutColumn(LastCall.shp, i) \in CheckerPackages
          /\ pkg' = WithoutColumn(LastCall.shp, i)
    /\ phase' = "Removed"
    /\ UNCHANGED << verbose, export, destOk, setOrder, shps_to_check, li, ci,
                    errors, warnings, status, out, calls >>

\* check_validity_shp_zip is invoked a second time on the same layer of the
\* unchanged package; the findings of both calls are kept.
ApplyCheckValidityAgain ==
    /\ phase = "Applied"
    /\ LastCall.fn = "check_validity_shp_zip"
    /\ LET res == check_validity_shp_zip(LastCall.shp)
       IN  /\ phase' = IF res.raised THEN "Aborted" ELSE "AppliedAgain"
           /\ calls' = Append(calls, LastCall)
           /\ out' = out \o res.out
           /\ errors' = res.ret
    /\ UNCHANGED << inputs, shps_to_check, li, ci, warnings, status >>

NextCheckers ==
    \/ ApplyShpWithinMun
    \/ ApplyCheckGaps
    \/ ApplyCheckOverlaps
    \/ ApplyCoveredMunBoth
    \/ ApplyVuWithinUses
    \/ ApplyPWithinZu
    \/ ApplyKOutsideZu
    \/ ApplyAllowedValues
    \/ ReorderFeatures
    \/ ShrinkBoundary
    \/ AddDuplicate
    \/ ApplyMandatoryAttrsExist
    \/ ApplyCheckValidity
    \/ RemoveColumn
    \/ ApplyCheckValidityAgain

SpecCheckers == InitCheckers /\ [][NextCheckers]_vars


(***************************************************************************)
(* C11: covered_mun_both on valid layers returns 0 exactly when the        *)
(* features of PlochyRZV_p and of KoridoryP_p together equal the boundary  *)
(* ReseneUzemi_p, and what it subtracts from the boundary is the union of  *)
(* all features of both layers.  In the code the subtracted geometry is    *)
(* the dissolve of the spatial join (the PlochyRZV_p features that meet a  *)
(* KoridoryP_p feature), and the test `diff is None` never holds.          *)
(***************************************************************************)
BothApplied ==
    /\ phase = "Applied"
    /\ LastCall.fn = "covered_mun_both"
    /\ validity_shp_zip("PlochyRZV_p") = 0
    /\ validity_shp_zip("KoridoryP_p") = 0
    /\ validity_shp_zip("ReseneUzemi_p") = 0

UnionOfBoth == Dissolved("PlochyRZV_p") \cup Dissolved("KoridoryP_p")

C11_CoverageByBothLayers ==
    BothApplied =>
        /\ errors = 0 <=> UnionOfBoth = borders_polygon
        /\ MergedDissolved = UnionOfBoth

\* The two layers together equal the boundary, and covered_mun_both has
\* reported Error and returned 1.
C11_Witness ==
    /\ BothApplied
    /\ UnionOfBoth = borders_polygon
    /\ errors = 1
    /\ LastOut = Finding("Error", "covered_mun_both", "-")


(***************************************************************************)
(* C12: when KoridoryP_p is absent or empty and PlochyRZV_p is present and *)
(* not empty, check_layers runs covered_mun_przv, which prints a Warning   *)
(* about the reduced scope; with PlochyRZV_p covering the boundary exactly *)
(* (all layers valid) that Warning is the only finding of the section, and *)
(* neither the status of the relationships nor, by itself, the status of   *)
(* the package is Error.  In the code covered_mun_przv returns 1 also at   *)
(* full coverage, so the status of the relationships is Error.             *)
(***************************************************************************)
ReducedScope ==
    /\ "PlochyRZV_p" \in shps_in_zip /\ ~IsEmptyLayer("PlochyRZV_p")
    /\ "KoridoryP_p" \in shps_in_zip => IsEmptyLayer("KoridoryP_p")

RelationshipStatusPrinted == \E i \in DOMAIN out : out[i].chk = "relationship_status"
RelationshipStatusOf ==
    out[CHOOSE i \in DOMAIN out : out[i].chk = "relationship_status"].sev

FullyCoveredByPlochyRZV ==
    /\ "ReseneUzemi_p" \in shps_in_zip
    /\ validity_shp_zip("PlochyRZV_p") = 0 /\ validity_shp_zip("ReseneUzemi_p") = 0
    /\ Dissolved("PlochyRZV_p") = borders_polygon

C12_ReducedScopeWarningIsNotAnError ==
    (ReducedScope /\ RelationshipStatusPrinted) =>
        /\ \E c \in DOMAIN calls : calls[c].fn = "covered_mun_przv"
        /\ \A c \in DOMAIN calls :
              calls[c].fn \notin {"covered_mun_both", "check_gaps_covered", "overlaps_covered_mun"}
        /\ FullyCoveredByPlochyRZV =>
              /\ \E i \in FindingsOf("Warning") : out[i].chk = "covered_mun_przv"
              /\ RelationshipStatusOf # "Error"
              /\ (/\ PackageStatusPrinted
                  /\ \A i \in SectionStatuses :
                        out[i].chk # "relationship_status" => out[i].sev = "Ok")
                    => PackageStatus # "Error"

\* A finished run without KoridoryP_p whose PlochyRZV_p covers the boundary
\* exactly: the Warning was printed, every layer has the status Ok, and the
\* status of the relationships and of the package is Error.
C12_Witness ==
    /\ phase = "Finished"
    /\ ReducedScope /\ FullyCoveredByPlochyRZV
    /\ \E i \in FindingsOf("Warning") : out[i].chk = "covered_mun_przv"
    /\ RelationshipStatusOf = "Error"
    /\ \A i \in SectionStatuses : out[i].chk # "relationship_status" => out[i].sev = "Ok"
    /\ PackageStatus = "Error"


(***************************************************************************)
(* C13: check_overlaps on a valid layer returns 0 exactly when no two      *)
(* distinct features of the layer share area.  The code looks for pairs    *)
(* with the predicate `overlaps`, which is false when one geometry holds   *)
(* the other, so features that lie inside other features are not counted.  *)
(***************************************************************************)
OverlapsApplied ==
    /\ phase = "Applied"
    /\ LastCall.fn = "check_overlaps"
    /\ validity_shp_zip(LastCall.shp) = 0

\* Two distinct features (rows) of the layer share area.
SharedArea(shp) ==
    \E i, j \in DOMAIN pkg[shp].feats :
        i # j /\ GeomIntersection(Geoms(shp)[i], Geoms(shp)[j]) # {}

C13_NoOverlapIffNoSharedArea ==
    OverlapsApplied => (errors = 0 <=> ~SharedArea(LastCall.shp))

\* Two features of different geometries, one inside the other, and
\* check_overlaps has reported Ok and returned 0.
C13_Witness ==
    /\ OverlapsApplied
    /\ \E i, j \in DOMAIN pkg[LastCall.shp].feats :
          /\ Geoms(LastCall.shp)[i] # Geoms(LastCall.shp)[j]
          /\ GeomWithin(Geoms(LastCall.shp)[i], Geoms(LastCall.shp)[j])
    /\ errors = 0
    /\ LastOut = Finding("Ok", "overlaps", LastCall.shp)


(***************************************************************************)
(* C14: when a feature of a valid layer (every feature has area) is added  *)
(* to the layer a second time, check_overlaps on the new layer returns a   *)
(* count greater than 0.  In the code two equal geometries never form a    *)
(* pair: the inner loop leaves out the geometries equal to the outer one,  *)
(* and `overlaps` is false for equal geometries.                           *)
(***************************************************************************)
DuplicateAdded(shp) ==
    /\ phase = "Checker"
    /\ shp \in DOMAIN pkg
    /\ validity_shp_zip(shp) = 0
    /\ \E i \in DOMAIN pkg[shp].feats : pkg' = Duplicated(shp, i)

C14_DuplicateFeatureIsAnOverlap ==
    [][ \A shp \in LayerNames :
            DuplicateAdded(shp) =>
                (~check_overlaps(shp).raised /\ check_overlaps(shp).ret > 0)' ]_vars

\* A valid layer holding the same geometry twice, on which check_overlaps
\* has reported Ok and returned 0.
C14_Witness ==
    /\ OverlapsApplied
    /\ \E i, j \in DOMAIN pkg[LastCall.shp].feats :
          i # j /\ Geoms(LastCall.shp)[i] = Geoms(LastCall.shp)[j]
    /\ errors = 0
    /\ LastOut = Finding("Ok", "overlaps", LastCall.shp)


(***************************************************************************)
(* C15: check_gaps on a valid layer returns 0 exactly when no polygon part *)
(* of the dissolve of its features has an interior ring, and it gives the  *)
(* same result for the features in another order.  The code reads the      *)
(* interior rings of the dissolved geometry as of one polygon: for a       *)
(* dissolve of several parts it reads None and reports no gaps.            *)
(***************************************************************************)
GapsApplied ==
    /\ phase = "Applied"
    /\ LastCall.fn = "check_gaps"
    /\ validity_shp_zip(LastCall.shp) = 0

\* Some polygon part of the geometry has an interior ring.
HasInteriorRing(g) == \E p \in Components(g) : InteriorRings(p) # {}

C15_NoGapIffNoInteriorRing ==
    /\ GapsApplied => (errors = 0 <=> ~HasInteriorRing(Dissolved(LastCall.shp)))
    /\ ( /\ phase = "Reordered"
         /\ LastCall.fn = "check_gaps"
         /\ validity_shp_zip(LastCall.shp) = 0 )
       => /\ check_gaps(LastCall.shp).ret = errors
          /\ check_gaps(LastCall.shp).out = out

\* The dissolve of the layer has two parts, one of them with an interior
\* ring, and check_gaps has reported Ok and returned 0.
C15_Witness ==
    /\ GapsApplied
    /\ Cardinality(Components(Dissolved(LastCall.shp))) = 2
    /\ HasInteriorRing(Dissolved(LastCall.shp))
    /\ errors = 0
    /\ LastOut = Finding("Ok", "gaps", LastCall.shp)


(***************************************************************************)
(* C16: shp_within_mun returns 0 for every valid layer all of whose        *)
(* features lie within the boundary, and for a fixed valid layer the count *)
(* it returns with a strictly smaller boundary is not less than the count  *)
(* it returned with the larger one.                                        *)
(***************************************************************************)
WithinCheckedOn(ph) ==
    /\ phase = ph
    /\ LastCall.fn = "shp_within_mun"
    /\ validity_shp_zip(LastCall.shp) = 0

AllWithinBoundary(shp) ==
    \A i \in DOMAIN pkg[shp].feats : Geoms(shp)[i] \subseteq borders_polygon

C16_WithinBoundaryIsZeroAndMonotone ==
    /\ (WithinCheckedOn("Applied") /\ AllWithinBoundary(LastCall.shp))
          => (errors = 0 /\ LastOut = Finding("Ok", "within", LastCall.shp))
    /\ WithinCheckedOn("Shrunk")
          => /\ ~shp_within_mun(LastCall.shp).raised
             /\ shp_within_mun(LastCall.shp).ret >= errors

\* The boundary was made smaller after shp_within_mun had returned 0 for a
\* layer with a feature wholly inside the larger boundary; with the smaller
\* one that feature is no longer within it and the count is 1.
C16_Witness ==
    /\ WithinCheckedOn("Shrunk")
    /\ errors = 0
    /\ out = << Finding("Ok", "within", LastCall.shp) >>
    /\ ~AllWithinBoundary(LastCall.shp)
    /\ shp_within_mun(LastCall.shp).ret = 1


(***************************************************************************)
(* The preconditions of the cross-layer subset checks, as the              *)
(* specification states them.                                              *)
(***************************************************************************)
\* The columns of a layer whose lower-case name is "id".
IdColumns(shp) == {c \in Range(pkg[shp].cols) : c \in {"id", "ID", "Id"}}

\* The rows of a layer whose id starts with the prefix.
SelectedRows(shp, prefix) ==
    {r \in DOMAIN pkg[shp].feats :
        \E c \in IdColumns(shp) :
            LET v == Cell(shp, c, r)
            IN  v # None /\ v.k = "str" /\ Prefix(v, Len(prefix)) = Str(prefix)}

PresentNonEmpty(shp) == shp \in DOMAIN pkg /\ pkg[shp].feats # <<>>

PreconditionsHold(shp, other, prefix) ==
    /\ PresentNonEmpty(shp) /\ PresentNonEmpty(other)
    /\ validity_shp_zip(shp) = 0 /\ validity_shp_zip(other) = 0
    /\ IdColumns(shp) # {}
    /\ SelectedRows(shp, prefix) # {}

\* Some selected feature is not fully contained in the combined geometry of
\* the target layer.
NotContained(shp, other, prefix) ==
    \E r \in SelectedRows(shp, prefix) : ~(Geoms(shp)[r] \subseteq Dissolved(other))

SubsetApplied(fn, shp) ==
    /\ phase \in {"Applied", "Aborted"}
    /\ LastCall = [fn |-> fn, shp |-> shp]

\* The outcome of a containment test that ran: one finding, and an error
\* exactly in the uncontained case.
ContainmentTested(shp, other, prefix) ==
    /\ phase = "Applied"
    /\ Len(out) = 1
    /\ errors # 0 <=> NotContained(shp, other, prefix)
    /\ out[1].sev = "Error" <=> NotContained(shp, other, prefix)

(***************************************************************************)
(* C17: when VpsVpoAs_p and USES_p are present, non-empty and valid, and   *)
(* VpsVpoAs_p has an id attribute and a feature whose id starts with VU,   *)
(* vu_within_uses runs the containment test and returns non-zero exactly   *)
(* when some VU feature is not contained in the combined USES_p geometry;  *)
(* likewise p_within_zu for the P features of PlochyZmen_p against         *)
(* ZastaveneUzemi_p.                                                       *)
(***************************************************************************)
C17_ContainmentRunsWhenPreconditionsHold ==
    /\ ( /\ SubsetApplied("vu_within_uses", "VpsVpoAs_p")
         /\ PreconditionsHold("VpsVpoAs_p", "USES_p", <<"V", "U">>) )
          => ContainmentTested("VpsVpoAs_p", "USES_p", <<"V", "U">>)
    /\ ( /\ SubsetApplied("p_within_zu", "PlochyZmen_p")
         /\ PreconditionsHold("PlochyZmen_p", "ZastaveneUzemi_p", <<"P">>) )
          => ContainmentTested("PlochyZmen_p", "ZastaveneUzemi_p", <<"P">>)

\* vu_within_uses was applied with every precondition met and a VU feature
\* reaching beyond USES_p.
C17_Witness ==
    /\ SubsetApplied("vu_within_uses", "VpsVpoAs_p")
    /\ PreconditionsHold("VpsVpoAs_p", "USES_p", <<"V", "U">>)
    /\ NotContained("VpsVpoAs_p", "USES_p", <<"V", "U">>)
    /\ phase = "Applied"
    /\ errors = 0
    /\ out = <<>>


\* geom_in of k_outside_zu: what the loop appends for the K features, when
\* the branch that holds the loop is taken.
geom_in(shp) ==
    LET ids == id_attr(shp)
        g == Geoms(shp)
        zu == Geoms("ZastaveneUzemi_p")
    IN  IF /\ validity_shp_zip(shp) = 0 /\ validity_shp_zip("ZastaveneUzemi_p") = 0
           /\ ListEqualsInt(ids, 1) /\ AnyStartsWith(shp, ids[1], <<"K">>)
        THEN { GeomDifference(g[r], UnionAll(zu)) :
                 r \in SubsetViolations(shp, ids[1], <<"K">>, "ZastaveneUzemi_p", FALSE) }
        ELSE {}

\* The K features that share some area with ZastaveneUzemi_p.
KInsideRows ==
    {r \in SelectedRows("PlochyZmen_p", <<"K">>) :
        GeomIntersection(Geoms("PlochyZmen_p")[r], Dissolved("ZastaveneUzemi_p")) # {}}

(***************************************************************************)
(* C18: when all preconditions hold, k_outside_zu reports an Error and     *)
(* returns non-zero if and only if some K feature of PlochyZmen_p has a    *)
(* non-empty intersection with ZastaveneUzemi_p, and the geometries it     *)
(* records are the portions of those features inside ZastaveneUzemi_p.     *)
(***************************************************************************)
C18_KInsideIsAnError ==
    ( /\ SubsetApplied("k_outside_zu", "PlochyZmen_p")
      /\ PreconditionsHold("PlochyZmen_p", "ZastaveneUzemi_p", <<"K">>) )
       => /\ phase = "Applied"
          /\ errors # 0 <=> KInsideRows # {}
          /\ Len(out) = 1
          /\ out[1].sev = "Error" <=> KInsideRows # {}
          /\ geom_in("PlochyZmen_p") =
                { GeomIntersection(Geoms("PlochyZmen_p")[r], Dissolved("ZastaveneUzemi_p")) :
                    r \in KInsideRows }

\* k_outside_zu was applied with every precondition met and a K feature
\* lying inside ZastaveneUzemi_p.
C18_Witness ==
    /\ SubsetApplied("k_outside_zu", "PlochyZmen_p")
    /\ PreconditionsHold("PlochyZmen_p", "ZastaveneUzemi_p", <<"K">>)
    /\ KInsideRows # {}
    /\ phase = "Applied"
    /\ errors = 0
    /\ geom_in("PlochyZmen_p") = {}


\* A subset check that met an unmet precondition ended without an exception
\* and left a finding of its own.
PreconditionReported(fn) ==
    /\ phase = "Applied"
    /\ Len(out) >= 1
    /\ \A i \in DOMAIN out : out[i].chk = fn /\ out[i].sev \in {"Error", "Warning"}

(***************************************************************************)
(* C19: when vu_within_uses, p_within_zu or k_outside_zu is invoked on its *)
(* source layer and some precondition is unmet (target layer missing,      *)
(* source or target layer empty, id attribute missing, no feature with the *)
(* prefix, invalid geometry in either layer), the check leaves a finding   *)
(* about it: it neither passes silently nor ends with an exception.        *)
(***************************************************************************)
C19_UnmetPreconditionIsReported ==
    /\ ( /\ SubsetApplied("vu_within_uses", "VpsVpoAs_p")
         /\ ~PreconditionsHold("VpsVpoAs_p", "USES_p", <<"V", "U">>) )
          => PreconditionReported("vu_within_uses")
    /\ ( /\ SubsetApplied("p_within_zu", "PlochyZmen_p")
         /\ ~PreconditionsHold("PlochyZmen_p", "ZastaveneUzemi_p", <<"P">>) )
          => PreconditionReported("p_within_zu")
    /\ ( /\ SubsetApplied("k_outside_zu", "PlochyZmen_p")
         /\ ~PreconditionsHold("PlochyZmen_p", "ZastaveneUzemi_p", <<"K">>) )
          => PreconditionReported("k_outside_zu")

\* vu_within_uses was applied to a valid VpsVpoAs_p with a VU feature while
\* USES_p is missing from the package, and ended with no finding at all.
C19_Witness ==
    /\ SubsetApplied("vu_within_uses", "VpsVpoAs_p")
    /\ "USES_p" \notin DOMAIN pkg
    /\ validity_shp_zip("VpsVpoAs_p") = 0
    /\ SelectedRows("VpsVpoAs_p", <<"V", "U">>) # {}
    /\ phase = "Applied"
    /\ errors = 0
    /\ out = <<>>


\* The (attribute, row) pairs of a layer whose value is not null and violates
\* the rule of that attribute, over all rows of the layer.
ViolatingCells(shp) ==
    LET inc == Included(shp)
    IN  { << i, r >> \in (DOMAIN inc) \X (DOMAIN pkg[shp].feats) :
            /\ Cell(shp, inc[i], r) # None
            /\ RowVerdict(shp, inc[i], r) = "wrong" }

ValuesApplied ==
    /\ phase = "Applied"
    /\ LastCall.fn = "allowed_values"

(***************************************************************************)
(* C20: for each mandatory attribute present in a layer, allowed_values    *)
(* evaluates the rule on every row: every row whose non-null value         *)
(* violates the rule of its attribute, at any row position, is among the   *)
(* rows found wrong and is counted in the value returned.                  *)
(***************************************************************************)
C20_EveryViolatingRowIsCounted ==
    ValuesApplied =>
        /\ \A c \in ViolatingCells(LastCall.shp) :
              << c[1], c[2], "wrong" >> \in Verdicts(LastCall.shp)
        /\ errors >= Cardinality({c[2] : c \in ViolatingCells(LastCall.shp)})

\* allowed_values was applied to a layer whose first row has a null value
\* and whose second row has a value that is not permitted, in one attribute.
C20_Witness ==
    /\ ValuesApplied
    /\ \E c \in ViolatingCells(LastCall.shp) :
          /\ c[2] = 2
          /\ Cell(LastCall.shp, Included(LastCall.shp)[c[1]], 1) = None
          /\ << c[1], 2, "wrong" >> \notin Verdicts(LastCall.shp)


\* The rule of the attribute lists null among its permitted values.
NullPermitted(shp, attr) ==
    /\ LowerName(shp) = "plochyzmen_p"
    /\ attr = "etapizace"
    /\ None \in values.plochyzmen_p.etapizace

\* The (attribute, row) pairs of a layer whose value is null.
NullCells(shp) ==
    LET inc == Included(shp)
    IN  { << i, r >> \in (DOMAIN inc) \X (DOMAIN pkg[shp].feats) :
            Cell(shp, inc[i], r) = None }

(***************************************************************************)
(* C21: allowed_values counts every null cell of a present mandatory       *)
(* attribute as a violation, except where the rule lists null as permitted *)
(* (etapizace of PlochyZmen_p), where a null cell is not counted.          *)
(***************************************************************************)
C21_NullCellIsAViolation ==
    ValuesApplied =>
        LET shp == LastCall.shp
            inc == Included(shp)
        IN  /\ \A c \in NullCells(shp) :
                  << c[1], c[2], "wrong" >> \in Verdicts(shp)
                      <=> ~NullPermitted(shp, inc[c[1]])
            /\ errors >= Cardinality({c \in NullCells(shp) :
                                        ~NullPermitted(shp, inc[c[1]])})

\* allowed_values was applied to a layer whose only null id is in its last
\* row, and returned 0.
C21_Witness ==
    /\ ValuesApplied
    /\ LastCall.shp = "PlochyZmen_p"
    /\ \E c \in NullCells("PlochyZmen_p") :
          /\ Included("PlochyZmen_p")[c[1]] = "id"
          /\ c[2] = Len(pkg["PlochyZmen_p"].feats)
    /\ errors = 0
    /\ LastOut = Finding("Ok", "values", "PlochyZmen_p")


\* wrong_values_info of allowed_values: the values of the rows found wrong.
wrong_values_info(shp) ==
    LET inc == Included(shp)
    IN  { Cell(shp, inc[x[1]], x[2]) : x \in {y \in Verdicts(shp) : y[3] = "wrong"} }

\* The layers whose rule for typ is set membership, their typ columns under
\* any letter case, and the rows whose typ is outside the permitted set.
TypLayers == {"PlochyRZV_p", "UzemniRezervy_p", "USES_p"}
TypColumns(shp) == {c \in Range(pkg[shp].cols) : c \in TypCases}
PermittedTyp(shp) == IF shp = "USES_p" THEN values.uses_p.typ ELSE values.obecne.typ
TypOutsideRows(shp) ==
    {r \in DOMAIN pkg[shp].feats :
        \E c \in TypColumns(shp) : Cell(shp, c, r) \notin PermittedTyp(shp)}

(***************************************************************************)
(* C22: for PlochyRZV_p, UzemniRezervy_p and USES_p, when the typ column   *)
(* is present under any letter case and exactly one row holds a typ        *)
(* outside the permitted set, allowed_values returns exactly 1 and records *)
(* that value as the label of the violation.                               *)
(***************************************************************************)
C22_OneWrongTypIsOneViolation ==
    ( /\ ValuesApplied
      /\ LastCall.shp \in TypLayers
      /\ Cardinality(TypOutsideRows(LastCall.shp)) = 1 )
       => /\ errors = 1
          /\ LastOut = Finding("Error", "values", LastCall.shp)
          /\ wrong_values_info(LastCall.shp) =
                { Cell(LastCall.shp, c, r) :
                    c \in TypColumns(LastCall.shp), r \in TypOutsideRows(LastCall.shp) }

\* allowed_values was applied to a layer whose typ column is named Typ and
\* in which one row of two holds a typ that is not permitted.
C22_Witness ==
    /\ ValuesApplied
    /\ LastCall.shp \in TypLayers
    /\ TypColumns(LastCall.shp) = {"Typ"}
    /\ Len(pkg[LastCall.shp].feats) = 2
    /\ Cardinality(TypOutsideRows(LastCall.shp)) = 1
    /\ errors = 0
    /\ wrong_values_info(LastCall.shp) = {}


\* The mandatory attribute names of a standardized layer type.
MandatoryNames(shp) ==
    IF shp = "SystemVerProstr_p" THEN Range(attributes.systemverprostr)
    ELSE Range(attributes[LowerName(shp)])

\* The mandatory names no column of the layer matches case-insensitively.
NamesWithoutColumn(shp) ==
    {a \in MandatoryNames(shp) : \A c \in Range(pkg[shp].cols) : LowerCol(c) # a}

\* The layer types of attributes.py; the one allowed_values names
\* systemverprostr_p has the key systemverprostr there.
HasMandatoryNames(shp) ==
    LowerName(shp) \in DOMAIN attributes \/ shp = "SystemVerProstr_p"

AttrsExistCalled ==
    /\ calls # <<>>
    /\ LastCall.fn = "mandatory_attrs_exist"
    /\ HasMandatoryNames(LastCall.shp)

(***************************************************************************)
(* C23: mandatory_attrs_exist on a layer of a standardized type returns    *)
(* the number of mandatory attribute names of the type that no column of   *)
(* the layer matches case-insensitively; when it returned 0 and one        *)
(* mandatory column is then removed, it returns exactly 1.                 *)
(***************************************************************************)
C23_MissingCountIsExact ==
    /\ (AttrsExistCalled /\ phase \in {"Applied", "Aborted"})
          => /\ phase = "Applied"
             /\ errors = Cardinality(NamesWithoutColumn(LastCall.shp))
    /\ (AttrsExistCalled /\ phase = "Removed" /\ errors = 0)
          => /\ ~mandatory_attrs_exist(LastCall.shp).raised
             /\ mandatory_attrs_exist(LastCall.shp).ret = 1

\* mandatory_attrs_exist was applied to a SystemVerProstr_p layer that has
\* its mandatory column, and ended with an exception.
C23_Witness ==
    /\ AttrsExistCalled
    /\ LastCall.shp = "SystemVerProstr_p"
    /\ NamesWithoutColumn("SystemVerProstr_p") = {}
    /\ phase = "Aborted"


ValidityCalled ==
    /\ calls # <<>>
    /\ LastCall.fn = "check_validity_shp_zip"

InvalidFeatures(shp) == {r \in DOMAIN pkg[shp].feats : ~pkg[shp].feats[r].valid}

NonStdLayersOfPackage ==
    {shp \in shps_in_zip : StartsWithX(shp) /\ ~InJsTables(shp) /\ ~IsEmptyLayer(shp)}

NonStdCheckOrder ==
    << "check_validity_shp_zip", "shp_within_mun", "check_gaps", "check_overlaps" >>

NonStdCallsOf(name) ==
    SelectSeqIdx(calls, [i \in DOMAIN calls |-> calls[i].shp = name], 1)

NonStdResultNonZero(name) ==
    \/ check_validity_shp_zip(name).ret # 0
    \/ shp_within_mun(name).ret # 0
    \/ check_gaps(name).ret # 0
    \/ check_overlaps(name).ret # 0

RECURSIVE FirstAppearances(_, _)
FirstAppearances(names, seen) ==
    IF names = <<>> THEN <<>>
    ELSE IF Head(names) \in seen THEN FirstAppearances(Tail(names), seen)
    ELSE <<Head(names)>> \o FirstAppearances(Tail(names), seen \cup {Head(names)})

InventoryOrder ==
    LET lines == SelectSeqIdx(out, [i \in DOMAIN out |->
                                       out[i].chk = "shp_info_standardized"], 1)
    IN  FirstAppearances([i \in DOMAIN lines |-> lines[i].shp], {})

NonStdCheckedOrder ==
    LET cs == SelectSeqIdx(calls, [i \in DOMAIN calls |->
                                      calls[i].shp \notin (Range(js_tables) \cup {"-"})], 1)
    IN  FirstAppearances([i \in DOMAIN cs |-> cs[i].shp], {})

\* The order in which the package itself lists its layers.
ListedOrder(names) ==
    SelectSeqIdx(AllNames, [i \in DOMAIN AllNames |-> AllNames[i] \in names], 1)

(***************************************************************************)
(* C26: for a fixed package and fixed arguments every run of check_layers  *)
(* emits its findings in one order: the inventory lines and the checks of  *)
(* the non-standardized layers follow the order fixed by the package, not  *)
(* an order that differs from run to run.                                  *)
(***************************************************************************)
C26_FindingsInFixedOrder ==
    /\ InventoryOrder = ListedOrder(Range(InventoryOrder))
    /\ NonStdCheckedOrder = ListedOrder(Range(NonStdCheckedOrder))

\* A finished run whose inventory lines and whose checks of two
\* non-standardized layers came in the other order of the set of names.
C26_Witness ==
    /\ phase = "Finished"
    /\ setOrder = "rev"
    /\ Len(InventoryOrder) >= 2
    /\ InventoryOrder = Reverse(ListedOrder(Range(InventoryOrder)))
    /\ Len(NonStdCheckedOrder) = 2
    /\ NonStdCheckedOrder = Reverse(ListedOrder(Range(NonStdCheckedOrder)))


\* The number of polygonal single parts of the intersections of the
\* overlapping features of a layer, each unordered pair taken once.
RECURSIVE PartsOfPairs(_, _)
PartsOfPairs(g, ps) ==
    IF ps = {} THEN 0
    ELSE LET p == CHOOSE q \in ps : TRUE
         IN  Cardinality(Components(GeomIntersection(g[p[1]], g[p[2]])))
                + PartsOfPairs(g, ps \ {p})

OverlapParts(shp) ==
    LET g == Geoms(shp)
    IN  PartsOfPairs(g, {p \in (DOMAIN g) \X (DOMAIN g) :
                            p[1] < p[2] /\ GeomOverlaps(g[p[1]], g[p[2]])})

(***************************************************************************)
(* C27: the value check_overlaps returns on a valid layer is the number of *)
(* polygonal single parts of the intersections, each overlapping unordered *)
(* pair of features counted once; it is the number the check prints, and   *)
(* it is 0 exactly when the check reports that there are no overlaps.      *)
(***************************************************************************)
C27_OverlapCountIsPartsOfUnorderedPairs ==
    OverlapsApplied =>
        /\ errors = OverlapParts(LastCall.shp)
        /\ PolygOnlyCount(Intersected(Geoms(LastCall.shp))) = errors
        /\ errors = 0 <=> LastOut = Finding("Ok", "overlaps", LastCall.shp)

\* check_overlaps was applied to a valid layer of two features that overlap
\* in one part, and returned 2.
C27_Witness ==
    /\ OverlapsApplied
    /\ Len(pkg[LastCall.shp].feats) = 2
    /\ OverlapParts(LastCall.shp) = 1
    /\ errors = 2
    /\ LastOut = Finding("Error", "overlaps", LastCall.shp)


\* The features of a layer that are not fully within the boundary.
FeaturesNotWithin(shp) ==
    {r \in DOMAIN pkg[shp].feats : ~(Geoms(shp)[r] \subseteq borders_polygon)}

(***************************************************************************)
(* C28: the count shp_within_mun returns for a valid layer is the number   *)
(* of features not fully within the boundary, whether or not the layer is  *)
(* standardized and whether or not it has its identifying attribute        *)
(* column; such a feature is reported as an Error.                         *)
(***************************************************************************)
C28_OutsideCountForEveryLayer ==
    WithinCheckedOn("Applied") =>
        /\ errors = Cardinality(FeaturesNotWithin(LastCall.shp))
        /\ FeaturesNotWithin(LastCall.shp) # {}
              => LastOut = Finding("Error", "within", LastCall.shp)

\* shp_within_mun was applied to a valid standardized layer that lacks its
\* identifying attribute column and has a feature reaching beyond the
\* boundary, and returned 0.
C28_Witness ==
    /\ WithinCheckedOn("Applied")
    /\ InJsTables(LastCall.shp)
    /\ mandatory_col_info(LastCall.shp) = <<>>
    /\ Len(pkg[LastCall.shp].cols) > 0
    /\ FeaturesNotWithin(LastCall.shp) # {}
    /\ errors = 0
    /\ LastOut = Finding("Ok", "within", LastCall.shp)


\* The layers whose features may overlap by design.
OverlapPermitted == {"VpsVpoAs_p", "UzemniRezervy_p"}

OverlapsInvokedOn(name) ==
    \E i \in DOMAIN calls : calls[i] = [fn |-> "check_overlaps", shp |-> name]

LayerStatusPrinted(name) ==
    \E i \in DOMAIN out : out[i].chk = "layer_status" /\ out[i].shp = name

(***************************************************************************)
(* C29: check_layers never invokes check_overlaps on VpsVpoAs_p or on      *)
(* UzemniRezervy_p, and every other standardized non-empty layer whose     *)
(* checks have come to their end has had check_overlaps invoked.           *)
(***************************************************************************)
C29_NoOverlapCheckForExemptLayers ==
    /\ \A name \in OverlapPermitted : ~OverlapsInvokedOn(name)
    /\ \A name \in Range(js_tables) \ OverlapPermitted :
          LayerStatusPrinted(name) => OverlapsInvokedOn(name)

\* check_overlaps has been invoked on UzemniRezervy_p, whose two features
\* overlap, and the status of that layer is Error.
C29_Witness ==
    /\ OverlapsInvokedOn("UzemniRezervy_p")
    /\ \E i \in DOMAIN out : out[i] = Finding("Error", "overlaps", "UzemniRezervy_p")
    /\ \E i \in DOMAIN out : /\ out[i].chk = "layer_status"
                             /\ out[i].shp = "UzemniRezervy_p"
                             /\ out[i].sev = "Error"


TwoLayerChecks == {"covered_mun_both", "check_gaps_covered", "overlaps_covered_mun"}

TwoLayerCheckInvoked == \E i \in DOMAIN calls : calls[i].fn \in TwoLayerChecks

(***************************************************************************)
(* C30: check_layers invokes covered_mun_both, check_gaps_covered and      *)
(* overlaps_covered_mun only when PlochyRZV_p and KoridoryP_p are both in  *)
(* the package and not empty; never when PlochyRZV_p is absent or empty.   *)
(***************************************************************************)
C30_TwoLayerChecksNeedBothLayers ==
    TwoLayerCheckInvoked =>
        /\ PresentNonEmpty("PlochyRZV_p")
        /\ PresentNonEmpty("KoridoryP_p")

\* covered_mun_both was invoked for a package without PlochyRZV_p, and its
\* exception ended the run.
C30_Witness ==
    /\ "PlochyRZV_p" \notin DOMAIN pkg
    /\ PresentNonEmpty("KoridoryP_p")
    /\ calls # <<>>
    /\ LastCall.fn = "covered_mun_both"
    /\ phase = "Aborted"

=============================================================================
